---- MODULE Spec2Model ----
\* Model of the forecasting backend: the ModelRegistry (models/registry.py), the
\* XGBoostPredictor life cycle (models/predictor.py), the background loops
\* (tasks/runner.py) with their wrapper, the request paths
\* (services/prediction_service.py, graphql/queries.py), the history store
\* (services/price_cache.py), the backtest result log with its readers
\* (tasks/runner.py, scripts/run_backtest.py, graphql/queries.py), the
\* indicator, dataset and rollout functions of the predictor, and the HTTP
\* rate limiter (main.py).
\*
\* Tasks are asyncio coroutines: the code between two suspension points runs
\* atomically, so every action below is one such segment.  Which task runs next
\* is left to the scheduler.  Library calls that can raise (file I/O, Redis,
\* the market download) raise or succeed nondeterministically.
EXTENDS Integers, Sequences, FiniteSets, TLC

\* ---------------------------------------------------------------- constants

\* XGBoostPredictor.__init__: look_back=20
look_back == 20

\* _walk_forward_split(val_size=200); settings.BACKTEST_VAL_SIZE = 200
val_size == 200

\* PredictionService.__init__(steps=5)
default_steps == 5

\* Query.predict_stock: STEPS = 6
stock_steps == 6

\* XGBoostPredictor.__init__: symbols = ["AAPL", "TSLA", "NVDA"]; the model
\* trains over the first two.
symbols == <<"AAPL", "TSLA">>

\* The lengths a stored hourly series takes in the model: 10 is shorter than
\* look_back, 122 gives 122 - 1 - look_back = 101 table rows, so that the
\* table has 0 rows, 101 rows (no split) or 202 rows (split and fit).
HistoryLens == {10, 122}

\* The lengths the series of a requested symbol takes: absent, shorter than
\* look_back, and long enough.
StoredLens == {0, 10, 25}

\* Largest number of steps a request asks for.
MaxSteps == 2

\* Number of nightly backtest runs explored.
MaxRuns == 1

\* The longest array handed to save_hourly_history / save_daily_history.
MaxLen == 2
MaxLog == 4
MaxWindow == 2
MaxSeries == 4

\* ------------------------------------------------------------------- values

\* registry.model = None; a predictor object is named by a number from 1.
None == 0

\* load() creates the predictor object: on_startup's load(), or the load() of
\* a nightly backtest loop that finds no model.
ObjIds == {1}

\* A training table is named by the series lengths it was built from, in the
\* order of `symbols`; <<>> is "never fitted".
NoFit == <<>>

\* market_returns: None ("none"), the zero fallback ("zeros"), or the
\* downloaded series ("data").
NoMarket == "none"

\* What the market download does: it raises, or it returns the series.
MarketOutcomes == {"raises", "data"}

\* What the callers of _get_market_returns() leave in self.market_returns:
\* the downloaded series, or zeros when the download raised.
market_returns_or_zeros(k) == IF k = "raises" THEN "zeros" ELSE "data"

\* XGBoostPredictor.__init__: fresh regressor and scaler, trained = False,
\* market_returns = None.
XGBoostPredictor ==
    [trained |-> FALSE, reg |-> NoFit, scaler |-> NoFit, mr |-> NoMarket,
     look_back |-> look_back]

\* The module-level `predictor = get_predictor("xgb")`: no code of the server
\* process trains it.
predictor == [XGBoostPredictor EXCEPT !.look_back = look_back]

\* The metadata save_artifacts writes for the current configuration.
CurrentMeta == [look_back |-> look_back, interval |-> "60m", feature_version |-> "v2"]

\* Metadata left by a release with another feature schema.
StaleMeta == [look_back |-> look_back, interval |-> "60m", feature_version |-> "v1"]

\* Artifact files: each is absent ({}) or holds one value ({v}).
NoFiles == [model |-> {}, scaler |-> {}, meta |-> {}]

Min(a, b) == IF a < b THEN a ELSE b

VARIABLES
    model,        \* ModelRegistry.model: None or an object id
    lock,         \* ModelRegistry.lock: "free" or the task holding it
    ready,        \* ModelRegistry.ready
    objs,         \* the predictor objects, by id
    created,      \* number of predictor objects created so far
    files,        \* the artifact files in settings.MODEL_DIR
    hourly,       \* price cache: length of each symbol's hourly series
    daily,        \* price cache: length of the requested symbol's daily series
    backtest_log, \* the lines of settings.BACKTEST_LOG_PATH
    log_exists,   \* whether the file settings.BACKTEST_LOG_PATH exists
    pc,           \* each task's position
    op,           \* what a task in "build" is building for: load, train, backtest
    cur,          \* the predictor object a task works on
    read,         \* the series lengths a dataset build has read so far
    snap,         \* market_returns as it was when the task's train() was entered
    ev,           \* what the last step did (observation only)
    req,          \* the last request served and its answer (observation only)
    wrapper,      \* task_wrapper: the position of each wrapped loop
    series,       \* price cache: the three Redis lists of one symbol, per interval
    rd,           \* a get_*_history() call in progress: what it has read so far
    rate_buckets, \* main._rate_buckets: per client, the arrival times kept
    clock,        \* time.time(), in seconds
    accepted      \* per client, the arrival times of every request let through
                  \* the limiter (history, observation only)

vars == <<model, lock, ready, objs, created, files, hourly, daily, backtest_log, log_exists,
          pc, op, cur, read, snap, ev, req, wrapper, series, rd,
          rate_buckets, clock, accepted>>


\* ------------------------------------------------- XGBoostPredictor (pure)

FileValue(f) == CHOOSE v \in f : TRUE

\* What the reads of load_artifacts can do: get_booster().load_model() raises
\* (also when the library refuses get_booster() on a never-fitted regressor),
\* joblib.load() raises, or both succeed.
LoadIO == {"ok", "model_raises", "scaler_raises"}

\* What the file writes of save_artifacts can do.
SaveIO == {"ok", "model_raises", "scaler_raises", "meta_raises"}

\* load_artifacts(): [ok, obj].  io says which read raises, mk is what the
\* market download does.
load_artifacts(self, fs, io, mk) ==
    IF fs.model = {} \/ fs.scaler = {}
      THEN [ok |-> FALSE, obj |-> self]
    ELSE IF io = "model_raises"
      THEN [ok |-> FALSE, obj |-> self]
    ELSE IF io = "scaler_raises"
      THEN [ok |-> FALSE, obj |-> [self EXCEPT !.reg = FileValue(fs.model)]]
    ELSE [ok |-> TRUE,
          obj |-> [self EXCEPT !.reg = FileValue(fs.model),
                                !.scaler = FileValue(fs.scaler),
                                !.trained = TRUE,
                                !.mr = market_returns_or_zeros(mk)]]

\* save_artifacts(): the files afterwards.  A write that raises ends the
\* method (the exception is printed), the files written before it stay.
save_artifacts(self, fs, io) ==
    IF io = "model_raises" THEN fs
    ELSE IF io = "scaler_raises" THEN [fs EXCEPT !.model = {self.reg}]
    ELSE IF io = "meta_raises"
      THEN [fs EXCEPT !.model = {self.reg}, !.scaler = {self.scaler}]
    ELSE [model |-> {self.reg}, scaler |-> {self.scaler}, meta |-> {CurrentMeta}]

\* Rows one symbol adds to the table: none below look_back + 30 prices, else
\* one per i in range(look_back, len(prices) - 1).
symbol_rows(n) == IF n < look_back + 30 THEN 0 ELSE n - 1 - look_back

RECURSIVE dataset_rows(_)
dataset_rows(tbl) ==
    IF tbl = <<>> THEN 0 ELSE symbol_rows(Head(tbl)) + dataset_rows(Tail(tbl))

\* A build that fits the scaler on whatever was collected, without the
\* `if not X_all` return.
build_global_dataset_fit_first(self, tbl) == [self EXCEPT !.scaler = tbl]

\* The end of _build_global_dataset(): an empty X_all returns before the
\* scaler is touched, otherwise scaler.fit_transform(X_all) refits it.
build_global_dataset_end(self, tbl) ==
    IF dataset_rows(tbl) = 0 THEN self ELSE [self EXCEPT !.scaler = tbl]

\* _walk_forward_split(): None when len(X) <= val_size.
walk_forward_split(rows, val) == rows > val

\* train() after the dataset is built: [obj, fit].  fit says that the
\* regressor was fitted (save_artifacts follows).
train_end(self, tbl) ==
    LET built == build_global_dataset_end(self, tbl)
        rows == dataset_rows(tbl)
    IN IF rows = 0 THEN [obj |-> built, fit |-> FALSE]
       ELSE IF ~walk_forward_split(rows, val_size) THEN [obj |-> built, fit |-> FALSE]
       ELSE [obj |-> [built EXCEPT !.reg = tbl, !.trained = TRUE], fit |-> TRUE]

\* backtest() after the dataset is built: [obj, fit]; fit also says that a
\* non-empty result is returned.
backtest_end(self, tbl, val) ==
    LET built == build_global_dataset_end(self, tbl)
        rows == dataset_rows(tbl)
    IN IF rows = 0 THEN [obj |-> built, fit |-> FALSE]
       ELSE IF ~walk_forward_split(rows, val) THEN [obj |-> built, fit |-> FALSE]
       ELSE [obj |-> [built EXCEPT !.reg = tbl, !.trained = TRUE], fit |-> TRUE]

\* seq[-n:]
LastN(seq, n) == SubSeq(seq, Len(seq) - Min(n, Len(seq)) + 1, Len(seq))

\* The growth factors (in percent) the regressor's predicted log return can
\* stand for: next_price = prices[-1] * exp(pred_ret).
Factors == {99, 100, 101}

\* round(next_price, 2) with prices counted in hundredths of a cent: the nearest
\* whole cent, a half going up.
round2(x) == ((x + 50) \div 100) * 100

\* The loop of predict(): k-th iteration on the working series.  An iteration
\* raises when a window is shorter than look_back (np.column_stack of columns
\* of unequal length; prices[0] of an empty series).  The answer carries the
\* working series next to the predictions.
RECURSIVE rollout(_, _, _, _, _, _)
rollout(prices, volumes, timestamps, rets, k, preds) ==
    IF k > Len(rets)
      THEN [raised |-> FALSE, preds |-> preds, prices |-> prices,
            volumes |-> volumes, timestamps |-> timestamps]
    ELSE IF \/ Len(LastN(prices, look_back)) # look_back
            \/ Len(LastN(volumes, look_back)) # look_back
            \/ Len(LastN(timestamps, look_back)) # look_back
      THEN [raised |-> TRUE, preds |-> <<>>, prices |-> prices,
            volumes |-> volumes, timestamps |-> timestamps]
    ELSE LET next_price == (prices[Len(prices)] * rets[k]) \div 100
         IN rollout(Append(prices, next_price),
                    Append(volumes, volumes[Len(volumes)]),
                    Append(timestamps, timestamps[Len(timestamps)] + 1),
                    rets, k + 1, Append(preds, round2(next_price)))

\* A predict() whose first statement tests the trained flag only: list(None)
\* raises TypeError on the next line.
predict_unchecked_volumes(self, prices, volumes, steps, dates, rets) ==
    IF ~self.trained THEN [raised |-> FALSE, preds |-> <<>>]
    ELSE IF volumes = {} THEN [raised |-> TRUE, preds |-> <<>>]
    ELSE IF steps > 0 /\ self.mr = NoMarket THEN [raised |-> TRUE, preds |-> <<>>]
    ELSE LET ts == IF dates = {} \/ dates = {<<>>}
                     THEN [i \in 1 .. Len(prices) |-> 0]
                     ELSE FileValue(dates)
         IN rollout(prices, FileValue(volumes), ts, SubSeq(rets, 1, steps), 1, <<>>)

\* predict(prices, volumes, steps, dates): [raised, preds].  volumes and dates
\* are {} for None and {seq} otherwise; rets are the regressor's answers, one
\* per step.  Timestamps count hours.
predict(self, prices, volumes, steps, dates, rets) ==
    IF ~self.trained \/ volumes = {} THEN [raised |-> FALSE, preds |-> <<>>]
    ELSE IF steps > 0 /\ self.mr = NoMarket THEN [raised |-> TRUE, preds |-> <<>>]
    ELSE LET ts == IF dates = {} \/ dates = {<<>>}
                     THEN [i \in 1 .. Len(prices) |-> 0]
                     ELSE FileValue(dates)
         IN rollout(prices, FileValue(volumes), ts, SubSeq(rets, 1, steps), 1, <<>>)

\* A predict_high_low() with the two band expressions exchanged.
predict_high_low_swapped(self, prices, volumes, steps, dates, rets) ==
    LET r == predict(self, prices, volumes, steps, dates, rets)
    IN [raised |-> r.raised,
        high |-> [i \in 1 .. Len(r.preds) |-> r.preds[i] * (990 - 2 * (i - 1))],
        low |-> [i \in 1 .. Len(r.preds) |-> r.preds[i] * (1010 + 2 * (i - 1))]]

\* predict_high_low(): [raised, high, low], the bands in thousandths of the
\* price unit: p * (1 + 0.01 + i * 0.002) and p * (1 - 0.01 - i * 0.002).
predict_high_low(self, prices, volumes, steps, dates, rets) ==
    LET r == predict(self, prices, volumes, steps, dates, rets)
    IN [raised |-> r.raised,
        high |-> [i \in 1 .. Len(r.preds) |-> r.preds[i] * (1010 + 2 * (i - 1))],
        low |-> [i \in 1 .. Len(r.preds) |-> r.preds[i] * (990 - 2 * (i - 1))]]

\* get_feature_importances(): empty unless trained; a fitted or loaded
\* regressor has importances.
get_feature_importances(self) ==
    IF ~self.trained THEN "empty"
    ELSE IF self.reg = NoFit THEN "empty"
    ELSE "values"

\* The stored series of length n: prices in hundredths of a cent (100.01,
\* 100.02, ... dollars), one volume.
SeriesPrices(n) == [i \in 1 .. n |-> 1000000 + 100 * i]
SeriesVolumes(n) == [i \in 1 .. n |-> 1000]

\* The series of an instrument quoted below half a cent (0.003 dollars).
PennyPrices(n) == [i \in 1 .. n |-> 30]

\* The price series a direct call of predict() is given.
PriceInputs(n) == {SeriesPrices(n), PennyPrices(n)}


\* --------------------------------------------------------- request paths

\* predict_next() once the daily history (n entries) is read: no history
\* gives [], an exception of predict() is logged and gives [].  steps = 0
\* stands for None: `steps or self.steps`.
predict_next_run(self, n, steps, rets) ==
    IF n = 0 THEN [raised |-> FALSE, preds |-> <<>>]
    ELSE LET r == predict(self, SeriesPrices(n), {SeriesVolumes(n)},
                          IF steps = 0 THEN default_steps ELSE steps, {}, rets)
         IN IF r.raised THEN [raised |-> FALSE, preds |-> <<>>] ELSE r

\* PredictionService.predict_next(): m is the registry's model reference.
predict_next(m, os, n, steps, rets) ==
    IF m = None THEN [raised |-> FALSE, preds |-> <<>>]
    ELSE IF ~os[m].trained THEN [raised |-> FALSE, preds |-> <<>>]
    ELSE predict_next_run(os[m], n, steps, rets)

\* The date loop of predict_next_with_dates(): days are numbered, day 0 is a
\* Monday; weekday() < 5 keeps Monday to Friday.
RECURSIVE future_dates(_, _, _)
future_dates(current_date, count, predicted_dates) ==
    IF Len(predicted_dates) >= count THEN predicted_dates
    ELSE LET next == current_date + 1
         IN IF next % 7 < 5
              THEN future_dates(next, count, Append(predicted_dates, next))
              ELSE future_dates(next, count, predicted_dates)

NoForecast == [raised |-> FALSE, dates |-> <<>>, prices |-> <<>>, high |-> <<>>,
               low |-> <<>>]

\* PredictionService.predict_next_with_dates(): the prices come from the
\* registry's model, the bands from the module-level predictor.
predict_next_with_dates(m, os, n, steps, rets, last_date) ==
    LET st == IF steps = 0 THEN default_steps ELSE steps
        preds == predict_next(m, os, n, st, rets).preds
        band == predict_high_low(predictor, SeriesPrices(n), {SeriesVolumes(n)},
                                 st, {}, rets)
    IN IF preds = <<>> THEN NoForecast
       ELSE [raised |-> band.raised,
             dates |-> future_dates(last_date, Len(preds), <<>>),
             prices |-> preds, high |-> band.high, low |-> band.low]

\* Query.predict_stock(): nh and nd are the lengths of the symbol's hourly and
\* daily series.  Missing or short hourly data raises ValueError.
predict_stock(m, os, nh, nd, rets, last_date) ==
    IF nh = 0 THEN [NoForecast EXCEPT !.raised = TRUE]
    ELSE IF nh < predictor.look_back THEN [NoForecast EXCEPT !.raised = TRUE]
    ELSE predict_next_with_dates(m, os, nd, stock_steps, rets, last_date)

\* -------------------------------------------------------------- the tasks

\* start_background_tasks() creates the loops.  on_startup calls it twice, so
\* there are two training loops; the second one takes part where the registry
\* lock is studied, elsewhere one copy of each loop runs.
Trainers == {"trainer"}
TrainingLoops == Trainers \cup {"trainer2"}
Backtesters == {"nightly"}
Tasks == {"startup", "predict_next"} \cup TrainingLoops \cup Backtesters

Components == {"trained", "reg", "scaler", "mr"}

\* The components of the model state in which two objects differ.
Changed(a, b) == {c \in Components : a[c] # b[c]}

\* What a step did: the call it belongs to and the phase of it (begin, read,
\* return, raise), whether the caller held the registry lock, whether the
\* regressor was fitted, the rows of the table, the exception raised, the
\* result, whether the registry held no model, the components of the model
\* state the step changed, whether it wrote artifacts, what load_artifacts
\* answered, and whether market_returns is as it was when train() was entered.
NoEv == [call |-> "none", phase |-> "none", locked |-> FALSE, fit |-> FALSE,
         rows |-> 0, raised |-> "none", result |-> "none", null |-> FALSE,
         changed |-> {}, saved |-> FALSE, loaded |-> "none", as_entered |-> TRUE]

\* An exception that leaves on_startup ends the process.
Alive == pc["startup"] # "failed"

\* on_startup creates the background tasks and then runs load() up to its
\* first suspension before any of them is scheduled.  In the runs where
\* on_startup is absent (the loops are started on their own) the tasks run
\* with a registry that was never loaded.
Started == pc["startup"] # "start"

Idle(t) ==
    /\ op' = [op EXCEPT ![t] = "none"]
    /\ cur' = [cur EXCEPT ![t] = None]
    /\ read' = [read EXCEPT ![t] = <<>>]
    /\ snap' = [snap EXCEPT ![t] = NoMarket]

\* Entering _build_global_dataset() on object o: the market returns are
\* stored, then the first get_hourly_history() suspends the task.
EnterBuild(t, o, what, before) ==
    /\ op' = [op EXCEPT ![t] = what]
    /\ cur' = [cur EXCEPT ![t] = o]
    /\ read' = [read EXCEPT ![t] = <<>>]
    /\ snap' = [snap EXCEPT ![t] = before]

\* on_startup: await model_registry.load(), up to the return of load() or to
\* the first suspension inside train().
Startup ==
    /\ Alive
    /\ pc["startup"] = "start"
    /\ lock = "free"
    /\ \E io \in LoadIO, mk \in MarketOutcomes :
         LET o == created + 1
             la == load_artifacts(XGBoostPredictor, files, io, mk)
         IN /\ created' = o
            /\ model' = o
            /\ IF la.ok
                 THEN /\ objs' = [objs EXCEPT ![o] = la.obj]
                      /\ ready' = TRUE
                      /\ lock' = "free"
                      /\ pc' = [pc EXCEPT !["startup"] = "done"]
                      /\ Idle("startup")
                      /\ ev' = [NoEv EXCEPT !.call = "load", !.phase = "return", !.locked = TRUE,
                                !.loaded = "ok",
                                !.changed = Changed(XGBoostPredictor, la.obj)]
                 ELSE /\ objs' = [objs EXCEPT ![o] =
                                    [la.obj EXCEPT !.mr = market_returns_or_zeros(mk)]]
                      /\ lock' = "startup"
                      /\ pc' = [pc EXCEPT !["startup"] = "build"]
                      /\ EnterBuild("startup", o, "load", la.obj.mr)
                      /\ ev' = [NoEv EXCEPT !.call = "load", !.phase = "begin", !.locked = TRUE,
                                !.loaded = "failed",
                                !.changed = Changed(XGBoostPredictor, objs'[o])]
                      /\ UNCHANGED ready
    /\ UNCHANGED <<wrapper, series, rd, req, files, hourly, daily, backtest_log, log_exists,
                   rate_buckets, clock, accepted>>

\* model_training_loop: one pass from `async with model_registry.lock` to the
\* first suspension.  With no model, model_registry.model.train() raises
\* AttributeError inside the lock; the loop logs it and sleeps 300 s.
TrainBegin(t) ==
    /\ Alive
    /\ Started
    /\ t \in TrainingLoops
    /\ pc[t] = "start"
    /\ lock = "free"
    /\ IF model = None
         THEN /\ pc' = [pc EXCEPT ![t] = "sleep"]
              /\ ev' = [NoEv EXCEPT !.call = "train", !.phase = "begin", 
                        !.locked = TRUE, !.null = TRUE, !.raised = "AttributeError"]
              /\ UNCHANGED <<lock, objs, op, cur, read, snap,
                   rate_buckets, clock, accepted>>
         ELSE \E mk \in MarketOutcomes :
              /\ lock' = t
              /\ objs' = [objs EXCEPT ![model].mr = market_returns_or_zeros(mk)]
              /\ pc' = [pc EXCEPT ![t] = "build"]
              /\ EnterBuild(t, model, "train", objs[model].mr)
              /\ ev' = [NoEv EXCEPT !.call = "train", !.phase = "begin", !.locked = TRUE,
                        !.changed = Changed(objs[model], objs'[model])]
    /\ UNCHANGED <<wrapper, series, rd, req, model, ready, created, files, hourly, daily, backtest_log, log_exists,
                   rate_buckets, clock, accepted>>

\* asyncio.sleep() of a loop is over.
Wake(t) ==
    /\ Alive
    /\ Started
    /\ pc[t] = "sleep"
    /\ pc' = [pc EXCEPT ![t] = "start"]
    /\ ev' = NoEv
    /\ UNCHANGED <<wrapper, series, rd, req, model, lock, ready, objs, created, files, hourly, daily,
                   backtest_log, log_exists, op, cur, read, snap,
                   rate_buckets, clock, accepted>>

\* nightly_backtest_loop at the run hour, up to the first suspension.  With no
\* model it awaits load() first; the lock is free then (a holder has set the
\* model), so load() runs on without suspending until its train() reads the
\* history or until it returns, and then backtest() is entered.
BacktestBegin(t) ==
    /\ Alive
    /\ Started
    /\ t \in Backtesters
    /\ pc[t] = "start"
    /\ Len(backtest_log) < MaxRuns
    /\ IF model # None
         THEN \E mk \in MarketOutcomes :
              /\ objs' = [objs EXCEPT ![model].mr = market_returns_or_zeros(mk)]
              /\ pc' = [pc EXCEPT ![t] = "build"]
              /\ EnterBuild(t, model, "backtest", NoMarket)
              /\ ev' = [NoEv EXCEPT !.call = "backtest", !.phase = "begin", !.locked = (lock = t),
                        !.changed = Changed(objs[model], objs'[model])]
              /\ UNCHANGED <<model, lock, ready, created,
                   rate_buckets, clock, accepted>>
         ELSE \E io \in LoadIO, mk \in MarketOutcomes, mk2 \in MarketOutcomes :
              LET o == created + 1
                  la == load_artifacts(XGBoostPredictor, files, io, mk)
              IN /\ lock = "free"
                 /\ created' = o
                 /\ model' = o
                 /\ pc' = [pc EXCEPT ![t] = "build"]
                 /\ IF la.ok
                      THEN /\ objs' = [objs EXCEPT ![o] =
                                         [la.obj EXCEPT !.mr = market_returns_or_zeros(mk2)]]
                           /\ ready' = TRUE
                           /\ lock' = "free"
                           /\ EnterBuild(t, o, "backtest", NoMarket)
                           /\ ev' = [NoEv EXCEPT !.call = "load", !.phase = "return", !.locked = TRUE, !.null = TRUE,
                                     !.loaded = "ok",
                                     !.changed = Changed(XGBoostPredictor, la.obj)]
                      ELSE /\ objs' = [objs EXCEPT ![o] =
                                         [la.obj EXCEPT !.mr = market_returns_or_zeros(mk)]]
                           /\ lock' = t
                           /\ EnterBuild(t, o, "load", la.obj.mr)
                           /\ ev' = [NoEv EXCEPT !.call = "load", !.phase = "begin", !.locked = TRUE, !.null = TRUE,
                                     !.loaded = "failed",
                                     !.changed = Changed(XGBoostPredictor, objs'[o])]
                           /\ UNCHANGED ready
    /\ UNCHANGED <<wrapper, series, rd, req, files, hourly, daily, backtest_log, log_exists,
                   rate_buckets, clock, accepted>>


\* A dataset build goes on: get_hourly_history() of the next symbol returns and
\* the one after it suspends the task again.
ReadNext(t) ==
    /\ Alive
    /\ Started
    /\ pc[t] = "build"
    /\ Len(read[t]) + 1 < Len(symbols)
    /\ read' = [read EXCEPT ![t] = Append(@, hourly[symbols[Len(@) + 1]])]
    /\ ev' = [NoEv EXCEPT !.call = op[t], !.phase = "read",
              !.locked = (lock = t)]
    /\ UNCHANGED <<wrapper, series, rd, req, model, lock, ready, objs, created, files, hourly, daily,
                   backtest_log, log_exists, pc, op, cur, snap,
                   rate_buckets, clock, accepted>>

\* A failure handled without leaving `async with`: the lock stays taken.
ReadFailKeepsLock(t) ==
    /\ Alive
    /\ Started
    /\ pc[t] = "build"
    /\ pc' = [pc EXCEPT ![t] = IF t = "startup" THEN "failed" ELSE "sleep"]
    /\ Idle(t)
    /\ ev' = [NoEv EXCEPT !.call = op[t], !.phase = "raise",
              !.locked = (lock = t), !.raised = "io"]
    /\ UNCHANGED <<wrapper, series, rd, req, model, lock, ready, objs, created,
                   files, hourly, daily, backtest_log, log_exists,
                   rate_buckets, clock, accepted>>

\* get_hourly_history() raises (Redis): the exception leaves train() or
\* backtest(); `async with` releases the lock; a loop logs and sleeps 300 s,
\* on_startup fails.
ReadFail(t) ==
    /\ Alive
    /\ Started
    /\ pc[t] = "build"
    /\ lock' = IF lock = t THEN "free" ELSE lock
    /\ pc' = [pc EXCEPT ![t] = IF t = "startup" THEN "failed" ELSE "sleep"]
    /\ Idle(t)
    /\ ev' = [NoEv EXCEPT !.call = op[t], !.phase = "raise",
              !.locked = (lock = t), !.raised = "io"]
    /\ UNCHANGED <<wrapper, series, rd, req, model, ready, objs, created, files, hourly, daily, backtest_log, log_exists,
                   rate_buckets, clock, accepted>>

\* The table a build ends with: the last symbol's series is read now.
FullTable(t) == Append(read[t], hourly[symbols[Len(symbols)]])

LastRead(t) == pc[t] = "build" /\ Len(read[t]) + 1 = Len(symbols)

\* The training loop's train() ends: scaler fit, split, regressor fit,
\* save_artifacts; the lock is released and the loop sleeps 3600 s.
FinishTrain(t) ==
    /\ Alive
    /\ Started
    /\ t \in TrainingLoops
    /\ LastRead(t)
    /\ op[t] = "train"
    /\ \E io \in SaveIO :
         LET o == cur[t]
             r == train_end(objs[o], FullTable(t))
         IN /\ objs' = [objs EXCEPT ![o] = r.obj]
            /\ files' = IF r.fit THEN save_artifacts(r.obj, files, io) ELSE files
            /\ ev' = [NoEv EXCEPT !.call = "train", !.phase = "return", !.locked = (lock = t), !.fit = r.fit,
                      !.rows = dataset_rows(FullTable(t)),
                      !.changed = Changed(objs[o], r.obj), !.saved = (files' # files),
                      !.as_entered = (r.obj.mr = snap[t])]
    /\ lock' = "free"
    /\ pc' = [pc EXCEPT ![t] = "sleep"]
    /\ Idle(t)
    /\ UNCHANGED <<wrapper, series, rd, req, model, ready, created, hourly, daily, backtest_log, log_exists,
                   rate_buckets, clock, accepted>>

\* The train() inside load() ends; load() sets ready and releases the lock.
\* on_startup is done; the nightly loop goes on into backtest().
FinishLoad(t) ==
    /\ Alive
    /\ Started
    /\ LastRead(t)
    /\ op[t] = "load"
    /\ \E io \in SaveIO, mk \in MarketOutcomes :
         LET o == cur[t]
             r == train_end(objs[o], FullTable(t))
         IN /\ files' = IF r.fit THEN save_artifacts(r.obj, files, io) ELSE files
            /\ ev' = [NoEv EXCEPT !.call = "load", !.phase = "return", !.locked = (lock = t), !.fit = r.fit,
                      !.rows = dataset_rows(FullTable(t)),
                      !.changed = Changed(objs[o], r.obj), !.saved = (files' # files),
                      !.as_entered = (r.obj.mr = snap[t])]
            /\ IF t = "startup"
                 THEN /\ objs' = [objs EXCEPT ![o] = r.obj]
                      /\ pc' = [pc EXCEPT ![t] = "done"]
                      /\ Idle(t)
                 ELSE /\ objs' = [objs EXCEPT ![model] =
                                    [r.obj EXCEPT !.mr = market_returns_or_zeros(mk)]]
                      /\ pc' = pc
                      /\ EnterBuild(t, model, "backtest", NoMarket)
    /\ ready' = TRUE
    /\ lock' = "free"
    /\ UNCHANGED <<wrapper, series, rd, req, model, created, hourly, daily, backtest_log, log_exists,
                   rate_buckets, clock, accepted>>

\* backtest() ends: scaler fit, split, regressor fit, trained = True; the loop
\* appends one line to the log and goes back to waiting for the run hour.
FinishBacktest(t) ==
    /\ Alive
    /\ Started
    /\ t \in Backtesters
    /\ LastRead(t)
    /\ op[t] = "backtest"
    /\ LET o == cur[t]
           r == backtest_end(objs[o], FullTable(t), val_size)
       IN /\ objs' = [objs EXCEPT ![o] = r.obj]
          /\ backtest_log' = Append(backtest_log, IF r.fit THEN "result" ELSE "no results")
          /\ log_exists' = TRUE
          /\ ev' = [NoEv EXCEPT !.call = "backtest", !.phase = "return", !.locked = (lock = t), !.fit = r.fit,
                    !.rows = dataset_rows(FullTable(t)),
                    !.changed = Changed(objs[o], r.obj),
                    !.result = IF r.fit THEN "values" ELSE "empty"]
    /\ pc' = [pc EXCEPT ![t] = "start"]
    /\ Idle(t)
    /\ UNCHANGED <<wrapper, series, rd, req, model, lock, ready, created, files, hourly, daily,
                   rate_buckets, clock, accepted>>

\* PriceCache.save_hourly_history(symbol, ...) with arrays of one length n.
SaveHourlyHistory ==
    /\ Alive
    /\ Started
    /\ \E i \in 1 .. Len(symbols), n \in HistoryLens :
         /\ hourly[symbols[i]] # n
         /\ hourly' = [hourly EXCEPT ![symbols[i]] = n]
    /\ ev' = NoEv
    /\ UNCHANGED <<wrapper, series, rd, req, model, lock, ready, objs, created, files, daily, backtest_log, log_exists,
                   pc, op, cur, read, snap,
                   rate_buckets, clock, accepted>>

\* PriceCache.save_daily_history(symbol, ...) for the requested symbol.
SaveDailyHistory ==
    /\ Alive
    /\ Started
    /\ \E n \in StoredLens :
         /\ daily # n
         /\ daily' = n
    /\ ev' = NoEv
    /\ UNCHANGED <<wrapper, series, rd, req, model, lock, ready, objs, created, files, hourly, backtest_log, log_exists,
                   pc, op, cur, read, snap,
                   rate_buckets, clock, accepted>>

\* PredictionService.predict_next() up to `await get_daily_history`.
PredictNextBegin ==
    /\ Alive
    /\ Started
    /\ pc["predict_next"] = "start"
    /\ IF model = None \/ ~objs[model].trained
         THEN /\ ev' = [NoEv EXCEPT !.call = "predict_next", !.phase = "return",
                        !.null = (model = None), !.result = "empty"]
              /\ UNCHANGED <<pc, cur,
                   rate_buckets, clock, accepted>>
         ELSE /\ pc' = [pc EXCEPT !["predict_next"] = "history"]
              /\ cur' = [cur EXCEPT !["predict_next"] = model]
              /\ ev' = [NoEv EXCEPT !.call = "predict_next", !.phase = "begin"]
    /\ UNCHANGED <<wrapper, series, rd, req, model, lock, ready, objs, created, files, hourly, daily,
                   backtest_log, log_exists, op, read, snap,
                   rate_buckets, clock, accepted>>

\* predict_next() after the history is read: no history gives [], otherwise
\* model.predict(prices, volumes, steps) runs; an exception of it is logged
\* and gives [].
PredictNextRun ==
    /\ Alive
    /\ Started
    /\ pc["predict_next"] = "history"
    /\ IF daily = 0
         THEN ev' = [NoEv EXCEPT !.call = "predict_next", !.phase = "return",
                     !.result = "empty"]
         ELSE \E f \in Factors :
              LET o == cur["predict_next"]
                  rets == [i \in 1 .. default_steps |-> f]
                  r == predict(objs[o], SeriesPrices(daily), {SeriesVolumes(daily)},
                               default_steps, {}, rets)
              IN ev' = [NoEv EXCEPT !.call = "predict", !.phase = "return",
                        !.locked = (lock = "predict_next"),
                        !.result = IF r.raised \/ r.preds = <<>> THEN "empty" ELSE "values"]
    /\ pc' = [pc EXCEPT !["predict_next"] = "start"]
    /\ cur' = [cur EXCEPT !["predict_next"] = None]
    /\ UNCHANGED <<wrapper, series, rd, req, model, lock, ready, objs, created, files, hourly, daily,
                   backtest_log, log_exists, op, read, snap,
                   rate_buckets, clock, accepted>>

\* Query.feature_importances: no suspension between get() and the call.
FeatureImportances ==
    /\ Alive
    /\ Started
    /\ IF model = None
         THEN ev' = [NoEv EXCEPT !.call = "feature_importances", !.phase = "return",  !.null = TRUE, !.result = "empty"]
         ELSE ev' = [NoEv EXCEPT !.call = "get_feature_importances", !.phase = "return",
                     !.locked = (lock = "feature_importances"),
                     !.result = get_feature_importances(objs[model])]
    /\ UNCHANGED <<wrapper, series, rd, req, model, lock, ready, objs, created, files, hourly, daily,
                   backtest_log, log_exists, pc, op, cur, read, snap,
                   rate_buckets, clock, accepted>>

\* ------------------------------------------------------- the specification

\* No request served yet.
NoReq == [fn |-> "none", trained |-> FALSE, volumes |-> FALSE, hist |-> 0,
          steps |-> 0, raised |-> FALSE, dates |-> <<>>, prices |-> <<>>,
          high |-> <<>>, low |-> <<>>]

\* The loops start_background_tasks() runs under task_wrapper.
Loops == {"Price Fetcher", "Hourly History Refresh", "Model Trainer",
          "Alert Monitor", "Nightly Backtest"}

\* task_wrapper is entered: the loop is about to be started.
NoWrapper == [l \in Loops |-> "start"]

\* The two stores of a symbol's history.
Intervals == {"hourly", "daily"}

\* The clients of the HTTP API, by request.client.host.
Clients == {"10.0.0.1", "10.0.0.2"}

\* _rate_buckets = defaultdict(deque): an empty deque for every client.
NoBuckets == [ip \in Clients |-> <<>>]

\* A symbol nothing was saved for: three absent (empty) lists.
Absent == [prices |-> <<>>, volumes |-> <<>>, dates |-> <<>>]

NoSeries == [g \in Intervals |-> Absent]

\* No get_*_history() call in progress.
NoRead == [at |-> "idle", g |-> "hourly", limit |-> {}, prices |-> <<>>,
           volumes |-> <<>>]

\* The table and artifacts a previous run of the server left behind.
PrevTable == <<122, 122>>

InitFiles ==
    {NoFiles,
     [model |-> {PrevTable}, scaler |-> {PrevTable}, meta |-> {CurrentMeta}],
     [model |-> {PrevTable}, scaler |-> {PrevTable}, meta |-> {}],
     [model |-> {PrevTable}, scaler |-> {PrevTable}, meta |-> {StaleMeta}]}

SymbolSet == {symbols[i] : i \in 1 .. Len(symbols)}

Init ==
    /\ model = None
    /\ lock = "free"
    /\ ready = FALSE
    /\ objs = [o \in ObjIds |-> XGBoostPredictor]
    /\ created = 0
    /\ files \in InitFiles
    /\ hourly \in [SymbolSet -> HistoryLens]
    /\ daily = 25
    /\ backtest_log = <<>>
    /\ log_exists = FALSE
    /\ pc = [t \in Tasks |-> "start"]
    /\ op = [t \in Tasks |-> "none"]
    /\ cur = [t \in Tasks |-> None]
    /\ read = [t \in Tasks |-> <<>>]
    /\ snap = [t \in Tasks |-> NoMarket]
    /\ ev = NoEv
    /\ req = NoReq
    /\ wrapper = NoWrapper
    /\ series = NoSeries
    /\ rd = NoRead
    /\ rate_buckets = NoBuckets
    /\ clock = 0
    /\ accepted = NoBuckets

Next ==
    \/ Startup
    \/ \E t \in Trainers : TrainBegin(t)
    \/ \E t \in Trainers \cup Backtesters : Wake(t)
    \/ \E t \in Backtesters : BacktestBegin(t)
    \/ \E t \in Tasks : ReadNext(t)
    \/ \E t \in Tasks : ReadFail(t)
    \/ \E t \in Trainers : FinishTrain(t)
    \/ \E t \in Tasks : FinishLoad(t)
    \/ \E t \in Backtesters : FinishBacktest(t)
    \/ SaveHourlyHistory
    \/ PredictNextBegin
    \/ PredictNextRun
    \/ FeatureImportances

Spec == Init /\ [][Next]_vars


\* ------------------------------------------- requests against a fixed state

\* The answers of the regressor over a request: one growth factor per step.
RetSeqs == {[i \in 1 .. stock_steps |-> 101],
            [i \in 1 .. stock_steps |-> IF i % 2 = 1 THEN 101 ELSE 99]}

\* The predictor a direct call is made on: the registry's model or the
\* module-level predictor (mutations.plot_stock, scripts/run_backtest.py).
Receivers == {predictor} \cup (IF model = None THEN {} ELSE {objs[model]})

RegistryTrained == model # None /\ objs[model].trained

\* predict(prices, volumes, steps, dates) called directly.
CallPredict ==
    /\ \E self \in Receivers, n \in StoredLens, given \in BOOLEAN,
          dated \in BOOLEAN, steps \in 0 .. MaxSteps, rets \in RetSeqs :
         \E prices \in PriceInputs(n) :
         LET r == predict(self, prices,
                          IF given THEN {SeriesVolumes(n)} ELSE {}, steps,
                          IF dated THEN {[i \in 1 .. n |-> i]} ELSE {}, rets)
         IN req' = [NoReq EXCEPT !.fn = "predict", !.trained = self.trained,
                    !.volumes = given, !.hist = n, !.steps = steps,
                    !.raised = r.raised, !.prices = r.preds]
    /\ UNCHANGED <<model, lock, ready, objs, created, files, hourly, daily,
                   backtest_log, log_exists, pc, op, cur, read, snap, ev, wrapper, series, rd,
                   rate_buckets, clock, accepted>>

\* predict_high_low(prices, volumes, steps, dates) called directly; the answer
\* of predict() on the same arguments is recorded next to the bands.
CallPredictHighLow ==
    /\ \E self \in Receivers, n \in StoredLens, given \in BOOLEAN,
          dated \in BOOLEAN, steps \in 0 .. MaxSteps, rets \in RetSeqs :
         \E prices \in PriceInputs(n) :
         LET volumes == IF given THEN {SeriesVolumes(n)} ELSE {}
             dates == IF dated THEN {[i \in 1 .. n |-> i]} ELSE {}
             r == predict_high_low(self, prices, volumes, steps, dates, rets)
             p == predict(self, prices, volumes, steps, dates, rets)
         IN req' = [NoReq EXCEPT !.fn = "predict_high_low", !.trained = self.trained,
                    !.volumes = given, !.hist = n, !.steps = steps,
                    !.raised = r.raised, !.prices = p.preds,
                    !.high = r.high, !.low = r.low]
    /\ UNCHANGED <<model, lock, ready, objs, created, files, hourly, daily,
                   backtest_log, log_exists, pc, op, cur, read, snap, ev, wrapper, series, rd,
                   rate_buckets, clock, accepted>>

\* PredictionService.predict_next(symbol, steps).
CallPredictNext ==
    /\ \E steps \in 0 .. MaxSteps, rets \in RetSeqs :
         LET r == predict_next(model, objs, daily, steps, rets)
         IN req' = [NoReq EXCEPT !.fn = "predict_next", !.trained = RegistryTrained,
                    !.volumes = TRUE, !.hist = daily, !.steps = steps,
                    !.raised = r.raised, !.prices = r.preds]
    /\ UNCHANGED <<model, lock, ready, objs, created, files, hourly, daily,
                   backtest_log, log_exists, pc, op, cur, read, snap, ev, wrapper, series, rd,
                   rate_buckets, clock, accepted>>

\* PredictionService.predict_next_with_dates(symbol, steps).
CallPredictNextWithDates ==
    /\ \E steps \in 0 .. MaxSteps, rets \in RetSeqs, last_date \in 0 .. 6 :
         LET r == predict_next_with_dates(model, objs, daily, steps, rets, last_date)
         IN req' = [NoReq EXCEPT !.fn = "predict_next_with_dates",
                    !.trained = RegistryTrained, !.volumes = TRUE, !.hist = daily,
                    !.steps = steps, !.raised = r.raised, !.dates = r.dates,
                    !.prices = r.prices, !.high = r.high, !.low = r.low]
    /\ UNCHANGED <<model, lock, ready, objs, created, files, hourly, daily,
                   backtest_log, log_exists, pc, op, cur, read, snap, ev, wrapper, series, rd,
                   rate_buckets, clock, accepted>>

\* Query.predict_stock(symbol) for the first tracked symbol.
CallPredictStock ==
    /\ \E rets \in RetSeqs, last_date \in 0 .. 6 :
         LET nh == hourly[symbols[1]]
             r == predict_stock(model, objs, nh, daily, rets, last_date)
         IN req' = [NoReq EXCEPT !.fn = "predict_stock", !.trained = RegistryTrained,
                    !.volumes = TRUE, !.hist = Min(nh, daily), !.steps = stock_steps,
                    !.raised = r.raised, !.dates = r.dates, !.prices = r.prices,
                    !.high = r.high, !.low = r.low]
    /\ UNCHANGED <<model, lock, ready, objs, created, files, hourly, daily,
                   backtest_log, log_exists, pc, op, cur, read, snap, ev, wrapper, series, rd,
                   rate_buckets, clock, accepted>>

\* The states requests are served in: no model yet, a model that load() left
\* untrained (no symbol had enough history), or a model restored from the
\* artifacts; any stored series.
LoadedStates ==
    {[XGBoostPredictor EXCEPT !.mr = m] : m \in {"zeros", "data"}}
      \cup {[XGBoostPredictor EXCEPT !.trained = TRUE, !.reg = PrevTable,
                                     !.scaler = PrevTable, !.mr = m] :
              m \in {"zeros", "data"}}

InitRequest ==
    /\ model \in {None, 1}
    /\ objs \in [ObjIds -> IF model = None THEN {XGBoostPredictor} ELSE LoadedStates]
    /\ lock = "free"
    /\ ready = (model # None)
    /\ created = model
    /\ files = IF model # None /\ objs[model].trained
                 THEN [model |-> {PrevTable}, scaler |-> {PrevTable},
                       meta |-> {CurrentMeta}]
                 ELSE NoFiles
    /\ hourly \in {[s \in SymbolSet |-> n] : n \in StoredLens}
    /\ daily \in StoredLens
    /\ backtest_log = <<>>
    /\ log_exists = FALSE
    /\ pc = [t \in Tasks |-> IF t = "startup" /\ model # None THEN "done" ELSE "start"]
    /\ op = [t \in Tasks |-> "none"]
    /\ cur = [t \in Tasks |-> None]
    /\ read = [t \in Tasks |-> <<>>]
    /\ snap = [t \in Tasks |-> NoMarket]
    /\ ev = NoEv
    /\ req = NoReq
    /\ wrapper = NoWrapper
    /\ series = NoSeries
    /\ rd = NoRead
    /\ rate_buckets = NoBuckets
    /\ clock = 0
    /\ accepted = NoBuckets

NextRequest ==
    \/ CallPredict
    \/ CallPredictHighLow
    \/ CallPredictNext
    \/ CallPredictNextWithDates
    \/ CallPredictStock
    \/ SaveDailyHistory

SpecRequest == InitRequest /\ [][NextRequest]_vars

\* ------------------------------------ the loops with a registry never loaded

\* start_background_tasks() without on_startup's load(): the loops and the
\* requests find model_registry.model = None.
InitLoops ==
    /\ model = None
    /\ lock = "free"
    /\ ready = FALSE
    /\ objs = [o \in ObjIds |-> XGBoostPredictor]
    /\ created = 0
    /\ files \in InitFiles
    /\ hourly \in [SymbolSet -> HistoryLens]
    /\ daily = 25
    /\ backtest_log = <<>>
    /\ log_exists = FALSE
    /\ pc = [t \in Tasks |-> IF t = "startup" THEN "absent" ELSE "start"]
    /\ op = [t \in Tasks |-> "none"]
    /\ cur = [t \in Tasks |-> None]
    /\ read = [t \in Tasks |-> <<>>]
    /\ snap = [t \in Tasks |-> NoMarket]
    /\ ev = NoEv
    /\ req = NoReq
    /\ wrapper = NoWrapper
    /\ series = NoSeries
    /\ rd = NoRead
    /\ rate_buckets = NoBuckets
    /\ clock = 0
    /\ accepted = NoBuckets

NextLoops ==
    \/ \E t \in Trainers : TrainBegin(t)
    \/ \E t \in Trainers \cup Backtesters : Wake(t)
    \/ \E t \in Backtesters : BacktestBegin(t)
    \/ \E t \in Tasks : ReadNext(t)
    \/ \E t \in Tasks : ReadFail(t)
    \/ \E t \in Trainers : FinishTrain(t)
    \/ \E t \in Tasks : FinishLoad(t)
    \/ \E t \in Backtesters : FinishBacktest(t)
    \/ SaveHourlyHistory
    \/ PredictNextBegin
    \/ PredictNextRun
    \/ FeatureImportances

SpecLoops == InitLoops /\ [][NextLoops]_vars


\* ------------------------------------------------------- the price cache

\* The versions of a series that get saved, and the limits that are asked for
\* (the last one is larger than every stored series).
Versions == {1, 2}
Limits == {0, 1, MaxLen + 1}

\* A column of n entries of version v.
Column(v, n) == [i \in 1 .. n |-> 10 * v + i]

\* The number of candles of version v: the first version is the longest.
VersionLen(v) == IF v = 1 THEN MaxLen ELSE 1

Columns == {"prices", "volumes", "dates"}

\* The arguments save_*_history is called with: three arrays of one length
\* (a version of the series, or nothing at all), or a version of the series
\* with one of the three arrays one entry short.
SaveArgs ==
    {[c \in Columns |-> Column(v, VersionLen(v))] : v \in Versions}
      \cup {[c \in Columns |-> <<>>]}
      \cup {[c \in Columns |-> Column(v, IF c = short THEN VersionLen(v) - 1
                                                        ELSE VersionLen(v))] :
               v \in Versions, short \in Columns}

\* zip(prices, volumes, dates): as many triples as the shortest argument.
zip_len(prices, volumes, dates) == Min(Len(prices), Min(Len(volumes), Len(dates)))

\* A save that relies on zip() alone, without the length check.
save_history_unchecked(stored, prices, volumes, dates) ==
    LET n == zip_len(prices, volumes, dates)
    IN [raised |-> FALSE,
        stored |-> [prices |-> SubSeq(prices, 1, n), volumes |-> SubSeq(volumes, 1, n),
                    dates |-> SubSeq(dates, 1, n)]]

\* save_hourly_history / save_daily_history on the lists `stored` of the
\* symbol: [raised, stored].  Unequal lengths raise ValueError before any
\* command is queued; otherwise the pipeline deletes the three lists and
\* pushes the zipped entries in one MULTI/EXEC.
save_history(stored, prices, volumes, dates) ==
    IF Len(prices) # Len(volumes) \/ Len(prices) # Len(dates)
      THEN [raised |-> TRUE, stored |-> stored]
    ELSE LET n == zip_len(prices, volumes, dates)
         IN [raised |-> FALSE,
             stored |-> [prices |-> SubSeq(prices, 1, n),
                         volumes |-> SubSeq(volumes, 1, n),
                         dates |-> SubSeq(dates, 1, n)]]

\* `if limit: xs = xs[-limit:]`: limit is {} for None and {n} otherwise; None
\* and 0 are both falsy.
apply_limit(xs, limit) ==
    IF limit = {} THEN xs
    ELSE IF FileValue(limit) = 0 THEN xs
    ELSE LastN(xs, FileValue(limit))

\* save_hourly_history / save_daily_history is called.
SaveHistory(g) ==
    /\ \E a \in SaveArgs :
         LET r == save_history(series[g], a.prices, a.volumes, a.dates)
         IN /\ series' = [series EXCEPT ![g] = r.stored]
            /\ req' = [fn |-> "save_history", g |-> g,
                       lens |-> <<Len(a.prices), Len(a.volumes), Len(a.dates)>>,
                       raised |-> r.raised, before |-> series[g], after |-> r.stored]
    /\ UNCHANGED <<model, lock, ready, objs, created, files, hourly, daily,
                   backtest_log, log_exists, pc, op, cur, read, snap, ev, wrapper, rd,
                   rate_buckets, clock, accepted>>

\* get_hourly_history / get_daily_history is called: the first lrange answers
\* with the prices list as it is now.
GetHistoryPrices(g) ==
    /\ rd.at = "idle"
    /\ \E limit \in {{}} \cup {{n} : n \in Limits} :
         rd' = [at |-> "volumes", g |-> g, limit |-> limit,
                prices |-> series[g].prices, volumes |-> <<>>]
    /\ UNCHANGED <<model, lock, ready, objs, created, files, hourly, daily,
                   backtest_log, log_exists, pc, op, cur, read, snap, ev, req, wrapper, series,
                   rate_buckets, clock, accepted>>

\* The second lrange answers with the volumes list as it is now.
GetHistoryVolumes ==
    /\ rd.at = "volumes"
    /\ rd' = [rd EXCEPT !.at = "dates", !.volumes = series[rd.g].volumes]
    /\ UNCHANGED <<model, lock, ready, objs, created, files, hourly, daily,
                   backtest_log, log_exists, pc, op, cur, read, snap, ev, req, wrapper, series,
                   rate_buckets, clock, accepted>>

\* The third lrange answers, the limit is applied and the triple is returned.
GetHistoryDates ==
    /\ rd.at = "dates"
    /\ LET dates == series[rd.g].dates
       IN req' = [fn |-> "get_history", g |-> rd.g, limit |-> rd.limit,
                  read |-> [prices |-> rd.prices, volumes |-> rd.volumes, dates |-> dates],
                  prices |-> apply_limit(rd.prices, rd.limit),
                  volumes |-> apply_limit(rd.volumes, rd.limit),
                  dates |-> apply_limit(dates, rd.limit)]
    /\ rd' = NoRead
    /\ UNCHANGED <<model, lock, ready, objs, created, files, hourly, daily,
                   backtest_log, log_exists, pc, op, cur, read, snap, ev, wrapper, series,
                   rate_buckets, clock, accepted>>

InitStore ==
    /\ model = None
    /\ lock = "free"
    /\ ready = FALSE
    /\ objs = [o \in ObjIds |-> XGBoostPredictor]
    /\ created = 0
    /\ files = NoFiles
    /\ hourly = [s \in SymbolSet |-> 0]
    /\ daily = 0
    /\ backtest_log = <<>>
    /\ log_exists = FALSE
    /\ pc = [t \in Tasks |-> "start"]
    /\ op = [t \in Tasks |-> "none"]
    /\ cur = [t \in Tasks |-> None]
    /\ read = [t \in Tasks |-> <<>>]
    /\ snap = [t \in Tasks |-> NoMarket]
    /\ ev = NoEv
    /\ req = NoReq
    /\ wrapper = NoWrapper
    /\ series = NoSeries
    /\ rd = NoRead
    /\ rate_buckets = NoBuckets
    /\ clock = 0
    /\ accepted = NoBuckets

NextStore ==
    \/ \E g \in Intervals : SaveHistory(g)
    \/ \E g \in Intervals : GetHistoryPrices(g)
    \/ GetHistoryVolumes
    \/ GetHistoryDates

SpecStore == InitStore /\ [][NextStore]_vars


\* ------------------------------------------------------- the registry lock

\* The tasks that take the registry lock: load() of on_startup and the two
\* training loops.
LockTasks == {"startup"} \cup TrainingLoops

InitLock ==
    /\ model = None
    /\ lock = "free"
    /\ ready = FALSE
    /\ objs = [o \in ObjIds |-> XGBoostPredictor]
    /\ created = 0
    /\ files \in InitFiles
    /\ hourly \in {[s \in SymbolSet |-> n] : n \in HistoryLens}
    /\ daily = 25
    /\ backtest_log = <<>>
    /\ log_exists = FALSE
    /\ pc = [t \in Tasks |-> "start"]
    /\ op = [t \in Tasks |-> "none"]
    /\ cur = [t \in Tasks |-> None]
    /\ read = [t \in Tasks |-> <<>>]
    /\ snap = [t \in Tasks |-> NoMarket]
    /\ ev = NoEv
    /\ req = NoReq
    /\ wrapper = NoWrapper
    /\ series = NoSeries
    /\ rd = NoRead
    /\ rate_buckets = NoBuckets
    /\ clock = 0
    /\ accepted = NoBuckets

\* One more step of the dataset build of task t: a read returns, a read
\* raises, or the build ends.
BuildStep(t) == ReadNext(t) \/ ReadFail(t) \/ FinishTrain(t) \/ FinishLoad(t)

NextLock ==
    \/ Startup
    \/ \E t \in TrainingLoops : TrainBegin(t)
    \/ \E t \in TrainingLoops : Wake(t)
    \/ \E t \in LockTasks : ReadNext(t)
    \/ \E t \in LockTasks : ReadFail(t)
    \/ \E t \in TrainingLoops : FinishTrain(t)
    \/ \E t \in LockTasks : FinishLoad(t)

\* The event loop runs on_startup; every Redis read returns or raises; every
\* sleep ends; asyncio.Lock hands the lock to its waiters in the order they
\* asked for it, so a loop that keeps asking gets it (strong fairness).
SpecLock ==
    /\ InitLock
    /\ [][NextLock]_vars
    /\ WF_vars(Startup)
    /\ \A t \in LockTasks : WF_vars(BuildStep(t))
    /\ \A t \in TrainingLoops : WF_vars(Wake(t)) /\ SF_vars(TrainBegin(t))

\* ------------------------------------------------------------ task_wrapper

\* The positions of task_wrapper(coro, name): "start" at the top of its
\* `while True`, "running" inside `await coro()`, "backoff" inside
\* `await asyncio.sleep(5)` of the `except Exception` branch, "ended" once the
\* wrapper has left its loop.
WrapperPcs == {"start", "running", "backoff", "ended"}

\* What a step of task_wrapper for loop l did.
WrapperEv(l, phase, raised) ==
    [NoEv EXCEPT !.call = "task_wrapper", !.phase = phase, !.result = l,
                 !.raised = raised]

\* try: log.info("Starting"); await coro(): the loop runs.
WrapperStart(l) ==
    /\ wrapper[l] = "start"
    /\ wrapper' = [wrapper EXCEPT ![l] = "running"]
    /\ ev' = WrapperEv(l, "begin", "none")
    /\ UNCHANGED <<model, lock, ready, objs, created, files, hourly, daily,
                   backtest_log, log_exists, pc, op, cur, read, snap, req, series, rd,
                   rate_buckets, clock, accepted>>

\* A crash handled by giving up: the wrapper ends with its loop.
LoopCrashEnds(l) ==
    /\ wrapper[l] = "running"
    /\ wrapper' = [wrapper EXCEPT ![l] = "ended"]
    /\ ev' = WrapperEv(l, "raise", "Exception")
    /\ UNCHANGED <<model, lock, ready, objs, created, files, hourly, daily,
                   backtest_log, log_exists, pc, op, cur, read, snap, req, series, rd,
                   rate_buckets, clock, accepted>>

\* coro() raises an Exception (os.makedirs of the nightly loop, or a failure
\* inside a loop's own handler): `except Exception` logs it and starts the
\* five-second sleep.
LoopCrash(l) ==
    /\ wrapper[l] = "running"
    /\ wrapper' = [wrapper EXCEPT ![l] = "backoff"]
    /\ ev' = WrapperEv(l, "raise", "Exception")
    /\ UNCHANGED <<model, lock, ready, objs, created, files, hourly, daily,
                   backtest_log, log_exists, pc, op, cur, read, snap, req, series, rd,
                   rate_buckets, clock, accepted>>

\* The sleep is over: log.info("Restarting") and back to the top of the loop.
BackoffOver(l) ==
    /\ wrapper[l] = "backoff"
    /\ wrapper' = [wrapper EXCEPT ![l] = "start"]
    /\ ev' = WrapperEv(l, "restart", "none")
    /\ UNCHANGED <<model, lock, ready, objs, created, files, hourly, daily,
                   backtest_log, log_exists, pc, op, cur, read, snap, req, series, rd,
                   rate_buckets, clock, accepted>>

\* The task is cancelled.  Inside coro() the CancelledError passes the loop's
\* own `except Exception` and is caught by the wrapper, which breaks; inside
\* the backoff sleep, or before the task first runs, it ends the task directly.
WrapperCancelled(l) ==
    /\ wrapper[l] # "ended"
    /\ wrapper' = [wrapper EXCEPT ![l] = "ended"]
    /\ ev' = WrapperEv(l, "cancel", "CancelledError")
    /\ UNCHANGED <<model, lock, ready, objs, created, files, hourly, daily,
                   backtest_log, log_exists, pc, op, cur, read, snap, req, series, rd,
                   rate_buckets, clock, accepted>>

InitWrapper == InitStore

NextWrapper ==
    \/ \E l \in Loops : WrapperStart(l)
    \/ \E l \in Loops : LoopCrash(l)
    \/ \E l \in Loops : BackoffOver(l)
    \/ \E l \in Loops : WrapperCancelled(l)

\* The event loop runs every task that is ready, and a five-second timer
\* elapses: a wrapper at the top of its loop starts its coroutine, and a
\* wrapper in its backoff wakes up.  Crashes and cancellations are not forced.
SpecWrapper ==
    /\ InitWrapper
    /\ [][NextWrapper]_vars
    /\ \A l \in Loops : WF_vars(WrapperStart(l)) /\ WF_vars(BackoffOver(l))


\* --------------------------------------------------------- the backtest log

\* The drift threshold 0.0005, in millionths.
drift_threshold == 500

\* The mae_model values backtest() answers, in units of 1e-7.
MaeValues == {10004, 13000, 21000}

\* What backtest() returns: {} for the empty dict, {r} for a result.  The
\* errors are in units of 1e-7, the accuracies in units of 1e-4.
BacktestResults ==
    {[mae_model |-> m, mae_baseline |-> 15000, directional_accuracy_model |-> 5204,
      directional_accuracy_baseline |-> 5000, validation_size |-> val_size] :
       m \in MaeValues}

BacktestOutcomes == {{}} \cup {{r} : r \in BacktestResults}

\* f"{x:.6f}" of an error and f"{x:.3f}" of an accuracy: the text keeps six
\* (three) decimals, so the number it stands for is counted in millionths
\* (thousandths).
fmt6(x) == (x + 5) \div 10
fmt3(x) == (x + 5) \div 10

\* The text after a "key=": one that float() / int() accepts, or not.
Num(n) == [num |-> TRUE, v |-> n]
NotNum == [num |-> FALSE, v |-> 0]

Keys == {"MAE_model", "MAE_baseline", "DirAcc_model", "DirAcc_baseline", "Val"}

NoPairs == [k \in {} |-> NotNum]

\* A line of the log is [blank, bar, timestamp, kv]: whether it is blank,
\* whether it holds " | ", the text before it (the second the line was
\* written at; 0 for a line of an earlier day) and the key=value pairs after it.  result_line is the line a
\* run writes for a result.
result_line(timestamp, results) ==
    [blank |-> FALSE, bar |-> TRUE, timestamp |-> timestamp,
     kv |-> [k \in Keys |->
               CASE k = "MAE_model" -> Num(fmt6(results.mae_model))
                 [] k = "MAE_baseline" -> Num(fmt6(results.mae_baseline))
                 [] k = "DirAcc_model" -> Num(fmt3(results.directional_accuracy_model))
                 [] k = "DirAcc_baseline" ->
                        Num(fmt3(results.directional_accuracy_baseline))
                 [] OTHER -> Num(results.validation_size)]]

\* "<timestamp> | No backtest results (insufficient data)"
no_results_line(timestamp) ==
    [blank |-> FALSE, bar |-> TRUE, timestamp |-> timestamp, kv |-> NoPairs]

\* Lines no run writes: text without " | ", a blank line, a result line whose
\* MAE_model is not a number, and a result line with the keys written with a
\* space ("MAE model=").
garbage_line == [blank |-> FALSE, bar |-> FALSE, timestamp |-> 0, kv |-> NoPairs]
blank_line == [blank |-> TRUE, bar |-> FALSE, timestamp |-> 0, kv |-> NoPairs]
bad_number_line ==
    [blank |-> FALSE, bar |-> TRUE, timestamp |-> 0,
     kv |-> [k \in Keys |-> IF k = "MAE_model" THEN NotNum ELSE Num(1)]]
spaced_line ==
    [blank |-> FALSE, bar |-> TRUE, timestamp |-> 0,
     kv |-> [k \in {"MAE model", "MAE baseline", "DirAcc model", "DirAcc baseline",
                    "Val"} |-> IF k = "MAE model" THEN Num(1300) ELSE Num(1)]]

LogLines ==
    {result_line(0, r) : r \in BacktestResults}
      \cup {no_results_line(0), garbage_line, blank_line, bad_number_line, spaced_line}

\* datetime.now().strftime("%Y-%m-%d %H:%M:%S") at the time of a run.
Times == {1, 2}

\* metrics.replace("MAE model=", "MAE_model=") and its three companions.
normalized_key(k) ==
    CASE k = "MAE model" -> "MAE_model"
      [] k = "MAE baseline" -> "MAE_baseline"
      [] k = "DirAcc model" -> "DirAcc_model"
      [] k = "DirAcc baseline" -> "DirAcc_baseline"
      [] OTHER -> k

\* _parse_backtest_line(line): {} for None, {result} otherwise.  A missing
\* key is a KeyError and a value that is no number a ValueError; both give
\* None.
parse_backtest_line(line) ==
    IF ~line.bar THEN {}
    ELSE LET values == [k \in {normalized_key(w) : w \in DOMAIN line.kv} |->
                          line.kv[CHOOSE w \in DOMAIN line.kv : normalized_key(w) = k]]
         IN IF \E k \in Keys : k \notin DOMAIN values THEN {}
            ELSE IF \E k \in Keys : ~values[k].num THEN {}
            ELSE {[timestamp |-> line.timestamp,
                   mae_model |-> values["MAE_model"].v,
                   mae_baseline |-> values["MAE_baseline"].v,
                   directional_accuracy_model |-> values["DirAcc_model"].v,
                   directional_accuracy_baseline |-> values["DirAcc_baseline"].v,
                   validation_size |-> values["Val"].v]}

\* The index Python uses for a slice bound i on a list of n entries.
slice_index(i, n) == IF i < 0 THEN (IF n + i < 0 THEN 0 ELSE n + i) ELSE Min(i, n)

\* xs[start:stop]
slice(xs, start, stop) ==
    SubSeq(xs, slice_index(start, Len(xs)) + 1, slice_index(stop, Len(xs)))

\* sum(r.mae_model for r in rs)
RECURSIVE sum_mae(_)
sum_mae(rs) == IF rs = <<>> THEN 0 ELSE rs[1].mae_model + sum_mae(SubSeq(rs, 2, Len(rs)))

\* The quotient num / den, kept exact.
Quotient(num, den) == [num |-> num, den |-> den]

\* q > c and q < c for a quotient q with den # 0.
Greater(q, c) == IF q.den > 0 THEN q.num > c * q.den ELSE q.num < c * q.den
Less(q, c) == IF q.den > 0 THEN q.num < c * q.den ELSE q.num > c * q.den

\* The results parsed from the lines of the log, in order.
parsed_results(lines) ==
    LET kept == SelectSeq(lines, LAMBDA l : ~l.blank /\ parse_backtest_line(l) # {})
    IN [i \in 1 .. Len(kept) |-> FileValue(parse_backtest_line(kept[i]))]

NoMetrics == [recent_mae |-> {}, prior_mae |-> {}, delta |-> {}]

\* drift_metrics(window) on the log: [raised, status, recent_mae, prior_mae,
\* delta], the three numbers as {} for None or {quotient}.
drift_metrics(exists, lines, window) ==
    IF ~exists
      THEN [raised |-> "none", status |-> "no-data"] @@ NoMetrics
    ELSE LET parsed == parsed_results(lines)
         IN IF Len(parsed) < window * 2
              THEN [raised |-> "none", status |-> "insufficient"] @@ NoMetrics
            ELSE IF window = 0
              THEN [raised |-> "ZeroDivisionError", status |-> "none"] @@ NoMetrics
            ELSE LET recent == slice(parsed, -window, Len(parsed))
                     prior == slice(parsed, -(window * 2), -window)
                     delta == Quotient(sum_mae(recent) - sum_mae(prior), window)
                 IN [raised |-> "none",
                     status |-> IF Greater(delta, drift_threshold) THEN "degrading"
                                ELSE IF Less(delta, -drift_threshold) THEN "improving"
                                ELSE "stable",
                     recent_mae |-> {Quotient(sum_mae(recent), window)},
                     prior_mae |-> {Quotient(sum_mae(prior), window)},
                     delta |-> {delta}]

\* The two nightly loops that the doubled start_background_tasks() creates.
NightlyLoops == {"nightly", "nightly2"}

\* nightly_backtest_loop: one run.  backtest() returns, the line for its
\* result is appended (open(..., "a") creates the file), or backtest() raises
\* and the loop logs the failure and sleeps.
NightlyBacktest(t) ==
    /\ Len(backtest_log) < MaxLog
    /\ \E results \in BacktestOutcomes, raises \in BOOLEAN, timestamp \in Times :
         /\ raises => (results = {} /\ timestamp = 1)
         /\ backtest_log' = IF raises THEN backtest_log
                            ELSE Append(backtest_log,
                                        IF results # {}
                                          THEN result_line(timestamp, FileValue(results))
                                        ELSE no_results_line(timestamp))
         /\ log_exists' = (log_exists \/ ~raises)
         /\ req' = [fn |-> "nightly_backtest", task |-> t, raised |-> raises,
                    results |-> results, timestamp |-> timestamp,
                    before |-> backtest_log, existed |-> log_exists]
    /\ UNCHANGED <<model, lock, ready, objs, created, files, hourly, daily,
                   pc, op, cur, read, snap, ev, wrapper, series, rd,
                   rate_buckets, clock, accepted>>

\* scripts/run_backtest.py: one run.  With an empty result it prints and
\* returns; otherwise it appends the line for the result.
RunBacktestScript ==
    /\ Len(backtest_log) < MaxLog
    /\ \E results \in BacktestOutcomes, timestamp \in Times :
         /\ results = {} => timestamp = 1
         /\ backtest_log' = IF results = {} THEN backtest_log
                            ELSE Append(backtest_log,
                                        result_line(timestamp, FileValue(results)))
         /\ log_exists' = (log_exists \/ results # {})
         /\ req' = [fn |-> "run_backtest", task |-> "script", raised |-> FALSE,
                    results |-> results, timestamp |-> timestamp,
                    before |-> backtest_log, existed |-> log_exists]
    /\ UNCHANGED <<model, lock, ready, objs, created, files, hourly, daily,
                   pc, op, cur, read, snap, ev, wrapper, series, rd,
                   rate_buckets, clock, accepted>>

\* The window arguments of drift_metrics.
Windows == -1 .. MaxWindow

\* The GraphQL query driftMetrics(window) is answered.
CallDriftMetrics ==
    /\ \E window \in Windows :
         req' = [fn |-> "drift_metrics", window |-> window]
                  @@ drift_metrics(log_exists, backtest_log, window)
    /\ UNCHANGED <<model, lock, ready, objs, created, files, hourly, daily,
                   backtest_log, log_exists, pc, op, cur, read, snap, ev, wrapper,
                   series, rd,
                   rate_buckets, clock, accepted>>

\* The logs a server finds when it starts: none, or a file of up to
\* MaxLog - 2 lines of any kind.
InitLogs == UNION {[1 .. n -> LogLines] : n \in 0 .. MaxLog - 2}

InitLog ==
    /\ model = None
    /\ lock = "free"
    /\ ready = FALSE
    /\ objs = [o \in ObjIds |-> XGBoostPredictor]
    /\ created = 0
    /\ files = NoFiles
    /\ hourly = [s \in SymbolSet |-> 0]
    /\ daily = 0
    /\ log_exists \in BOOLEAN
    /\ backtest_log \in (IF log_exists THEN InitLogs ELSE {<<>>})
    /\ pc = [t \in Tasks |-> "start"]
    /\ op = [t \in Tasks |-> "none"]
    /\ cur = [t \in Tasks |-> None]
    /\ read = [t \in Tasks |-> <<>>]
    /\ snap = [t \in Tasks |-> NoMarket]
    /\ ev = NoEv
    /\ req = NoReq
    /\ wrapper = NoWrapper
    /\ series = NoSeries
    /\ rd = NoRead
    /\ rate_buckets = NoBuckets
    /\ clock = 0
    /\ accepted = NoBuckets

NextLog ==
    \/ \E t \in NightlyLoops : NightlyBacktest(t)
    \/ RunBacktestScript
    \/ CallDriftMetrics

SpecLog == InitLog /\ [][NextLog]_vars


\* ----------------------------------------------- persisting and restoring

\* The tables a train() builds: one stored series length per symbol.
Tables == [1 .. Len(symbols) -> HistoryLens]

\* The predictor of the running process, the one that trains and saves.
Saver == 1

\* A whole train() on the process's predictor: the market download, the
\* dataset build over the table tbl, the split, the fit and save_artifacts().
TrainAndPersist ==
    /\ \E tbl \in Tables, mk \in MarketOutcomes, io \in SaveIO :
         LET entered == [objs[Saver] EXCEPT !.mr = market_returns_or_zeros(mk)]
             r == train_end(entered, tbl)
         IN /\ objs' = [objs EXCEPT ![Saver] = r.obj]
            /\ files' = IF r.fit THEN save_artifacts(r.obj, files, io) ELSE files
            /\ req' = [fn |-> "train", fit |-> r.fit,
                       persisted |-> (r.fit /\ io = "ok")]
    /\ UNCHANGED <<model, lock, ready, created, hourly, daily, backtest_log,
                   log_exists, pc, op, cur, read, snap, ev, wrapper, series, rd,
                   rate_buckets, clock, accepted>>

\* A fresh XGBoostPredictor (another process, or the object load() creates)
\* runs load_artifacts() on the files.  after_persist says that the last
\* train() of the saver fitted and wrote all its artifacts.
LoadFresh ==
    /\ \E io \in LoadIO, mk \in MarketOutcomes :
         LET la == load_artifacts(XGBoostPredictor, files, io, mk)
         IN req' = [fn |-> "load_artifacts", ok |-> la.ok, loaded |-> la.obj,
                    after_persist |->
                        \/ req.fn = "train" /\ req.persisted
                        \/ req.fn = "load_artifacts" /\ req.after_persist]
    /\ UNCHANGED <<model, lock, ready, objs, created, files, hourly, daily,
                   backtest_log, log_exists, pc, op, cur, read, snap, ev, wrapper,
                   series, rd,
                   rate_buckets, clock, accepted>>

InitPersist ==
    /\ model = None
    /\ lock = "free"
    /\ ready = FALSE
    /\ objs = [o \in ObjIds |-> XGBoostPredictor]
    /\ created = 0
    /\ files \in InitFiles
    /\ hourly = [s \in SymbolSet |-> 0]
    /\ daily = 0
    /\ backtest_log = <<>>
    /\ log_exists = FALSE
    /\ pc = [t \in Tasks |-> "start"]
    /\ op = [t \in Tasks |-> "none"]
    /\ cur = [t \in Tasks |-> None]
    /\ read = [t \in Tasks |-> <<>>]
    /\ snap = [t \in Tasks |-> NoMarket]
    /\ ev = NoEv
    /\ req = NoReq
    /\ wrapper = NoWrapper
    /\ series = NoSeries
    /\ rd = NoRead
    /\ rate_buckets = NoBuckets
    /\ clock = 0
    /\ accepted = NoBuckets

NextPersist ==
    \/ TrainAndPersist
    \/ LoadFresh

SpecPersist == InitPersist /\ [][NextPersist]_vars


\* ------------------------------------------------------------- indicators

\* Everything but the observation `req`: a call of a pure function changes
\* nothing else.
NotReq == <<model, lock, ready, objs, created, files, hourly, daily, backtest_log,
            log_exists, pc, op, cur, read, snap, ev, wrapper, series, rd,
            rate_buckets, clock, accepted>>

\* The calls of a pure function do not depend on one another: a behaviour
\* makes one call, on any of the inputs.
FirstCall == req = NoReq

\* The prices the series of the indicator checks are made of.
PriceLevels == {100, 101, 103}

\* The series up to MaxSeries prices long.
PriceSeries == UNION {[1 .. n -> PriceLevels] : n \in 0 .. MaxSeries}

\* The rolling periods _calc_rsi is called with: its default of 14, and a
\* short one that lets the window slide inside a short series.
Periods == {2, 14}

\* Not a number.
NaN == Quotient(0, 0)

\* series.diff().fillna(0)
rsi_delta(prices, i) == IF i = 1 THEN 0 ELSE prices[i] - prices[i - 1]

\* The sum of f over the rolling window of `period` entries that ends at i
\* (min_periods=1: a shorter window at the start).  gain and loss are this sum
\* divided by one and the same window length.
RECURSIVE rolling_sum(_, _, _)
rolling_sum(f, from, to) ==
    IF from > to THEN 0 ELSE f[from] + rolling_sum(f, from + 1, to)

\* A _calc_rsi without the no_movement mask.
calc_rsi_unmasked(prices, period) ==
    LET n == Len(prices)
        up == [i \in 1 .. n |-> IF rsi_delta(prices, i) > 0 THEN rsi_delta(prices, i) ELSE 0]
        down == [i \in 1 .. n |-> IF rsi_delta(prices, i) < 0 THEN -rsi_delta(prices, i) ELSE 0]
        first(i) == IF i - period + 1 < 1 THEN 1 ELSE i - period + 1
        gain(i) == rolling_sum(up, first(i), i)
        loss(i) == rolling_sum(down, first(i), i)
        rsi(i) == IF loss(i) = 0 THEN NaN
                  ELSE Quotient(100 * gain(i), gain(i) + loss(i))
    IN [i \in 1 .. n |-> IF rsi(i) = NaN THEN Quotient(100, 1) ELSE rsi(i)]

\* A _calc_rsi that fills the undefined values with 0.
calc_rsi_zero_filled(prices, period) ==
    LET n == Len(prices)
        up == [i \in 1 .. n |-> IF rsi_delta(prices, i) > 0 THEN rsi_delta(prices, i) ELSE 0]
        down == [i \in 1 .. n |-> IF rsi_delta(prices, i) < 0 THEN -rsi_delta(prices, i) ELSE 0]
        first(i) == IF i - period + 1 < 1 THEN 1 ELSE i - period + 1
        gain(i) == rolling_sum(up, first(i), i)
        loss(i) == rolling_sum(down, first(i), i)
        rsi(i) == IF loss(i) = 0 THEN NaN
                  ELSE Quotient(100 * gain(i), gain(i) + loss(i))
        masked(i) == IF gain(i) = 0 /\ loss(i) = 0 THEN Quotient(50, 1) ELSE rsi(i)
    IN [i \in 1 .. n |-> IF masked(i) = NaN THEN Quotient(0, 1) ELSE masked(i)]

\* _calc_rsi(prices, period): one quotient per price.  rs = gain / loss with
\* a zero loss replaced by NaN; rsi = 100 - 100 / (1 + rs), which is
\* 100 * gain / (gain + loss); where gain and loss are both zero the value is
\* masked to 50, and the remaining NaN are filled with 100.
calc_rsi(prices, period) ==
    LET n == Len(prices)
        up == [i \in 1 .. n |-> IF rsi_delta(prices, i) > 0 THEN rsi_delta(prices, i) ELSE 0]
        down == [i \in 1 .. n |-> IF rsi_delta(prices, i) < 0 THEN -rsi_delta(prices, i) ELSE 0]
        first(i) == IF i - period + 1 < 1 THEN 1 ELSE i - period + 1
        gain(i) == rolling_sum(up, first(i), i)
        loss(i) == rolling_sum(down, first(i), i)
        rsi(i) == IF loss(i) = 0 THEN NaN
                  ELSE Quotient(100 * gain(i), gain(i) + loss(i))
        masked(i) == IF gain(i) = 0 /\ loss(i) = 0 THEN Quotient(50, 1) ELSE rsi(i)
    IN [i \in 1 .. n |-> IF masked(i) = NaN THEN Quotient(100, 1) ELSE masked(i)]

\* The columns _make_features_for_symbol stacks before market_features, each
\* with the argument its length comes from.
FeatureColumns ==
    <<"prices", "volumes", "prices", "prices", "prices", "prices", "prices",
      "prices", "volumes", "dates", "dates">>

\* _make_features_for_symbol(prices, volumes, dates, market_features) by
\* shape: the arguments are the three lengths and the rows and columns of
\* market_features; the answer is [raised, rows, cols].  prices[0] of an empty
\* series raises IndexError; np.column_stack raises ValueError unless all
\* columns have one length.
make_features_for_symbol(lens, market_rows, market_cols) ==
    IF lens.prices = 0 THEN [raised |-> "IndexError", rows |-> 0, cols |-> 0]
    ELSE IF \/ \E c \in 1 .. Len(FeatureColumns) : lens[FeatureColumns[c]] # lens.prices
            \/ market_rows # lens.prices
      THEN [raised |-> "ValueError", rows |-> 0, cols |-> 0]
    ELSE [raised |-> "none", rows |-> lens.prices,
          cols |-> Len(FeatureColumns) + market_cols]

\* The market indices of a predictor: three by default, any list by argument.
MarketCounts == 0 .. 3

\* _calc_rsi is called.
CallCalcRsi ==
    /\ FirstCall
    /\ \E prices \in PriceSeries, period \in Periods :
         req' = [fn |-> "calc_rsi", prices |-> prices, period |-> period,
                 rsi |-> calc_rsi(prices, period)]
    /\ UNCHANGED NotReq

\* _make_features_for_symbol is called: series of n entries, or with one of
\* the arguments one entry longer.
CallMakeFeatures ==
    /\ FirstCall
    /\ \E n \in 0 .. MaxSeries, longer \in {"none", "volumes", "dates", "market"},
          market_cols \in MarketCounts :
         LET lens == [prices |-> n,
                      volumes |-> IF longer = "volumes" THEN n + 1 ELSE n,
                      dates |-> IF longer = "dates" THEN n + 1 ELSE n]
             market_rows == IF longer = "market" THEN n + 1 ELSE n
         IN req' = [fn |-> "make_features", lens |-> lens,
                    market_rows |-> market_rows, market_cols |-> market_cols]
                     @@ make_features_for_symbol(lens, market_rows, market_cols)
    /\ UNCHANGED NotReq

NextIndicators ==
    \/ CallCalcRsi
    \/ CallMakeFeatures

SpecIndicators == InitStore /\ [][NextIndicators]_vars

\* ------------------------------------------------- training table and split

\* The longest table the split is checked on.
MaxRows == 4

\* The tables of the split: row k of X and target k of y are both named k.
RowTables == {[k \in 1 .. n |-> k] : n \in 0 .. MaxRows}

\* The validation sizes backtest() is called with.
ValSizes == 0 .. MaxRows + 1

\* _walk_forward_split(X, y, val_size): None when len(X) <= val_size, else
\* X[:-val_size], y[:-val_size], X[-val_size:], y[-val_size:].
walk_forward_split_sets(X, y, val) ==
    IF Len(X) <= val THEN [split |-> FALSE]
    ELSE [split |-> TRUE,
          X_train |-> slice(X, 0, -val), y_train |-> slice(y, 0, -val),
          X_val |-> slice(X, -val, Len(X)), y_val |-> slice(y, -val, Len(y))]

\* backtest(val_size) on a built table: {} for an empty table and for no
\* split, else the fit on the training rows and the metrics over the
\* validation rows.
backtest_split(X, y, val) ==
    IF Len(X) = 0 THEN [empty |-> TRUE, split |-> FALSE]
    ELSE LET sets == walk_forward_split_sets(X, y, val)
         IN IF ~sets.split THEN [empty |-> TRUE, split |-> FALSE]
            ELSE [empty |-> FALSE, validation_size |-> Len(sets.y_val)] @@ sets

\* The lengths of a symbol's stored series around the look_back + 30 minimum.
DatasetLens == {0, look_back, look_back + 29, look_back + 30, look_back + 32}

\* A symbol's rows with one more window, up to the last price.
symbol_windows_to_end(s, n, cols) ==
    IF n < look_back + 30 THEN <<>>
    ELSE [k \in 1 .. n - look_back |->
            LET i == look_back + k - 1
            IN [symbol |-> s,
                first |-> slice_index(i - look_back, n),
                last |-> slice_index(i, n) - 1,
                columns |-> (slice_index(i, n) - slice_index(i - look_back, n)) * cols,
                target |-> <<i, i + 1>>]]

\* The rows one symbol of n prices adds to X_all and y_all, indices counted
\* from 0 as in the code: none below look_back + 30 prices, else for every i
\* in range(look_back, n - 1) the flattened features[i - look_back : i] and
\* the target log(prices[i + 1] / prices[i]).  cols is the column count of
\* the symbol's feature matrix.
symbol_windows(s, n, cols) ==
    IF n < look_back + 30 THEN <<>>
    ELSE [k \in 1 .. n - 1 - look_back |->
            LET i == look_back + k - 1
            IN [symbol |-> s,
                first |-> slice_index(i - look_back, n),
                last |-> slice_index(i, n) - 1,
                columns |-> (slice_index(i, n) - slice_index(i - look_back, n)) * cols,
                target |-> <<i, i + 1>>]]

\* The loop of _build_global_dataset over symbols s .. : every symbol's
\* series is read, its market columns are cut or padded to its length and its
\* feature matrix is made, then its windows are appended.
RECURSIVE global_dataset(_, _, _)
global_dataset(s, lens, market_cols) ==
    IF s > Len(lens) THEN <<>>
    ELSE LET n == lens[s]
             features == make_features_for_symbol(
                             [prices |-> n, volumes |-> n, dates |-> n], n, market_cols)
         IN (IF n < look_back + 30 THEN <<>>
             ELSE symbol_windows(s, n, features.cols))
            \o global_dataset(s + 1, lens, market_cols)

\* backtest() splits a table.
CallBacktestSplit ==
    /\ FirstCall
    /\ \E X \in RowTables, val \in ValSizes :
         req' = [fn |-> "backtest_split", X |-> X, val_size |-> val]
                  @@ backtest_split(X, X, val)
    /\ UNCHANGED NotReq

\* _build_global_dataset() runs over stored series of the drawn lengths, for
\* a predictor of the drawn number of market indices.
CallBuildDataset ==
    /\ FirstCall
    /\ \E lens \in [1 .. Len(symbols) -> DatasetLens], market_cols \in MarketCounts :
         req' = [fn |-> "build_global_dataset", lens |-> lens,
                 market_cols |-> market_cols,
                 X |-> global_dataset(1, lens, market_cols)]
    /\ UNCHANGED NotReq

NextDataset ==
    \/ CallBacktestSplit
    \/ CallBuildDataset

SpecDataset == InitStore /\ [][NextDataset]_vars

\* ------------------------------------------------------------ rollout loop

\* The lengths of the series predict() rolls out from: a window exactly
\* look_back long and a longer series.
RolloutLens == {look_back, look_back + 5}

\* Hours between two entries of a series of the interval.
HoursPerEntry(interval) == IF interval = "hourly" THEN 1 ELSE 24

\* pd.Timestamp.utcnow() in hours.
UtcNow == 1000

\* A stored series of n entries of the interval: volumes that differ from
\* entry to entry, timestamps in hours.
RolloutVolumes(n) == [i \in 1 .. n |-> 1000 + i]
RolloutDates(n, interval) == [i \in 1 .. n |-> HoursPerEntry(interval) * i]

\* predict() up to its loop, on a trained model with volumes given: the
\* working series are copies of the arguments, timestamps are the parsed
\* dates or, without dates, one utcnow() for every price.
PredictEnter ==
    /\ FirstCall
    /\ \E interval \in Intervals, n \in RolloutLens, dated \in BOOLEAN,
          steps \in 0 .. MaxSteps :
         \E prices \in PriceInputs(n) :
         req' = [fn |-> "predict_loop", interval |-> interval, dated |-> dated,
                 steps |-> steps, input |-> prices,
                 prices |-> prices, volumes |-> RolloutVolumes(n),
                 timestamps |-> IF dated THEN RolloutDates(n, interval)
                                ELSE [i \in 1 .. n |-> UtcNow],
                 preds |-> <<>>]
    /\ UNCHANGED NotReq

\* One iteration of `for _ in range(steps)`; ret is the regressor's answer.
PredictIterate ==
    /\ req.fn = "predict_loop"
    /\ Len(req.preds) < req.steps
    /\ \E ret \in Factors :
         LET r == rollout(req.prices, req.volumes, req.timestamps, <<ret>>, 1, req.preds)
         IN req' = [req EXCEPT !.prices = r.prices, !.volumes = r.volumes,
                               !.timestamps = r.timestamps, !.preds = r.preds]
    /\ UNCHANGED NotReq

\* return preds
PredictReturn ==
    /\ req.fn = "predict_loop"
    /\ Len(req.preds) = req.steps
    /\ req' = [req EXCEPT !.fn = "predict_returned"]
    /\ UNCHANGED NotReq

NextRollout ==
    \/ PredictEnter
    \/ PredictIterate
    \/ PredictReturn

SpecRollout == InitStore /\ [][NextRollout]_vars

\* ------------------------------------------------------------ rate limiter

\* The window and the quota the limiter runs with.  settings reads both from
\* the environment (RATE_LIMIT_WINDOW_SECONDS, default 60; RATE_LIMIT_MAX,
\* default 120).
RATE_LIMIT_WINDOW_SECONDS == 2
RATE_LIMIT_MAX == 2

\* The last second the clock reaches.
MaxTime == 4

\* Request paths, character by character: /health, /w, /ws, /ws/prices.
Paths ==
    {<<"/", "h", "e", "a", "l", "t", "h">>,
     <<"/", "w">>,
     <<"/", "w", "s">>,
     <<"/", "w", "s", "/", "p", "r", "i", "c", "e", "s">>}

\* path.startswith(prefix)
startswith(path, prefix) ==
    Len(path) >= Len(prefix) /\ SubSeq(path, 1, Len(prefix)) = prefix

\* while bucket and now - bucket[0] > window: bucket.popleft()
RECURSIVE popleft_old(_, _)
popleft_old(bucket, now) ==
    IF bucket # <<>> /\ now - Head(bucket) > RATE_LIMIT_WINDOW_SECONDS
      THEN popleft_old(Tail(bucket), now)
      ELSE bucket

\* A limiter that lets a request through while the bucket holds no more than
\* RATE_LIMIT_MAX entries.
rate_limit_one_more(bucket, now, path) ==
    IF startswith(path, <<"/", "w", "s">>)
      THEN [limited |-> FALSE, status |-> 200, bucket |-> bucket]
    ELSE LET kept == popleft_old(bucket, now)
         IN IF Len(kept) > RATE_LIMIT_MAX
              THEN [limited |-> TRUE, status |-> 429, bucket |-> kept]
              ELSE [limited |-> TRUE, status |-> 200, bucket |-> Append(kept, now)]

\* rate_limit_and_log up to call_next, on the client's bucket: [limited,
\* status, bucket].  A /ws path goes straight to call_next; otherwise the old
\* entries are dropped, a full bucket answers 429 and anything else appends
\* `now` and goes to call_next (status 200 stands for the handler's answer).
rate_limit(bucket, now, path) ==
    IF startswith(path, <<"/", "w", "s">>)
      THEN [limited |-> FALSE, status |-> 200, bucket |-> bucket]
    ELSE LET kept == popleft_old(bucket, now)
         IN IF Len(kept) >= RATE_LIMIT_MAX
              THEN [limited |-> TRUE, status |-> 429, bucket |-> kept]
              ELSE [limited |-> TRUE, status |-> 200, bucket |-> Append(kept, now)]

\* A request of client ip for path arrives at the middleware.  There is no
\* await between time.time() and bucket.append(now).
RateLimitAndLog(ip, path) ==
    LET r == rate_limit(rate_buckets[ip], clock, path)
    IN /\ rate_buckets' = [rate_buckets EXCEPT ![ip] = r.bucket]
       /\ accepted' = IF r.limited /\ r.status = 200
                        THEN [accepted EXCEPT ![ip] = Append(@, clock)]
                        ELSE accepted
       /\ req' = [fn |-> "rate_limit_and_log", ip |-> ip, path |-> path,
                  now |-> clock, limited |-> r.limited, status |-> r.status,
                  before |-> rate_buckets]
       /\ UNCHANGED <<model, lock, ready, objs, created, files, hourly, daily,
                      backtest_log, log_exists, pc, op, cur, read, snap, ev,
                      wrapper, series, rd, clock>>

\* A second passes.
Tick ==
    /\ clock < MaxTime
    /\ clock' = clock + 1
    /\ UNCHANGED <<model, lock, ready, objs, created, files, hourly, daily,
                   backtest_log, log_exists, pc, op, cur, read, snap, ev, req,
                   wrapper, series, rd, rate_buckets, accepted>>

NextLimiter ==
    \/ \E ip \in Clients, path \in Paths : RateLimitAndLog(ip, path)
    \/ Tick

SpecLimiter == InitStore /\ [][NextLimiter]_vars

\* ------------------------------------------------------------ future dates

\* The largest number of predictions dates are generated for.
MaxDates == 6

\* The calendar: a "%Y-%m-%d" string is <<year, month, day>>, a datetime is the
\* number of days since 2024-01-01, a Monday.
FirstYear == 2024

IsLeap(y) == (y % 4 = 0 /\ y % 100 # 0) \/ y % 400 = 0

DaysInMonth(y, m) ==
    IF m = 2 THEN (IF IsLeap(y) THEN 29 ELSE 28)
    ELSE IF m \in {4, 6, 9, 11} THEN 30 ELSE 31

DaysInYear(y) == IF IsLeap(y) THEN 366 ELSE 365

RECURSIVE DaysBeforeYear(_)
DaysBeforeYear(y) == IF y <= FirstYear THEN 0 ELSE DaysInYear(y - 1) + DaysBeforeYear(y - 1)

RECURSIVE DaysBeforeMonth(_, _)
DaysBeforeMonth(y, m) == IF m <= 1 THEN 0 ELSE DaysInMonth(y, m - 1) + DaysBeforeMonth(y, m - 1)

\* datetime.strptime(s, "%Y-%m-%d")
strptime(s) == DaysBeforeYear(s[1]) + DaysBeforeMonth(s[1], s[2]) + s[3] - 1

\* date.strftime("%Y-%m-%d"): the days left are taken off year by year, then
\* month by month.
RECURSIVE strftime_from(_, _, _)
strftime_from(days, y, m) ==
    IF days >= DaysInYear(y) /\ m = 1 THEN strftime_from(days - DaysInYear(y), y + 1, 1)
    ELSE IF days >= DaysInMonth(y, m) THEN strftime_from(days - DaysInMonth(y, m), y, m + 1)
    ELSE <<y, m, days + 1>>

strftime(date) == strftime_from(date, FirstYear, 1)

\* date.weekday(): Monday is 0.
weekday(date) == date % 7

\* A test that keeps Saturdays.
keeps_date_with_saturday(date) == weekday(date) < 6

\* if current_date.weekday() < 5
keeps_date(date) == weekday(date) < 5

\* The last stored trading dates: every day of 2024.
StoredDates == {strftime(d) : d \in 0 .. DaysInYear(FirstYear) - 1}

\* predict_next_with_dates() after a non-empty prediction: the last stored
\* date is parsed, predicted_dates = [], current_date = last_date.
DatesEnter ==
    /\ FirstCall
    /\ \E last_date_str \in StoredDates, count \in 1 .. MaxDates :
         req' = [fn |-> "dates_loop", last_date_str |-> last_date_str,
                 count |-> count, current_date |-> strptime(last_date_str),
                 predicted_dates |-> <<>>]
    /\ UNCHANGED NotReq

\* One iteration of `while len(predicted_dates) < len(preds)`.
DatesIterate ==
    /\ req.fn = "dates_loop"
    /\ Len(req.predicted_dates) < req.count
    /\ LET current_date == req.current_date + 1
       IN req' = [req EXCEPT
                    !.current_date = current_date,
                    !.predicted_dates =
                        IF keeps_date(current_date)
                          THEN Append(@, strftime(current_date)) ELSE @]
    /\ UNCHANGED NotReq

\* The loop is left.
DatesReturn ==
    /\ req.fn = "dates_loop"
    /\ ~(Len(req.predicted_dates) < req.count)
    /\ req' = [req EXCEPT !.fn = "dates_returned"]
    /\ UNCHANGED NotReq

NextDates ==
    \/ DatesEnter
    \/ DatesIterate
    \/ DatesReturn

\* The loop has no await: once entered, the coroutine runs it to its end.
SpecDates ==
    /\ InitStore
    /\ [][NextDates]_vars
    /\ WF_vars(DatesIterate)
    /\ WF_vars(DatesReturn)

\* ---------------------------------------------------------------- claims

\* C1: every predict, every get_feature_importances and every fit of the
\* regressor runs while its caller holds ModelRegistry.lock.
C1_ModelCallsHoldLock ==
    (ev.call \in {"predict", "get_feature_importances"} \/ ev.fit) => ev.locked

\* C2: the registry never exposes a half-loaded or half-trained model: while a
\* load() is still building its model, get() does not return that model, and a
\* load() that failed leaves get() and ready as they were (None and FALSE: load()
\* is only called on a registry that holds no model).
C2_NoHalfLoadedModel ==
    /\ \A t \in Tasks : (pc[t] = "build" /\ op[t] = "load") => model # cur[t]
    /\ (ev.call = "load" /\ ev.phase = "raise") => (model = None /\ ~ready)

\* C3: a predictor that serves predictions never holds a torn pair: its scaler
\* and its regressor were fitted from the same training table, also after a
\* train() or backtest() that stopped early.
C3_ScalerAndRegressorSameTable ==
    \A o \in ObjIds : objs[o].trained => objs[o].scaler = objs[o].reg

\* C4: backtest(), predict() and get_feature_importances() are observers: no
\* step of them changes the regressor, the scaler, the trained flag or the
\* market-return cache.
C4_ObserversChangeNothing ==
    ev.call \in {"backtest", "predict", "get_feature_importances"} => ev.changed = {}

\* C5: load_artifacts() succeeds only if the regressor file, the scaler file and
\* the metadata file are all present and the metadata is that of the current
\* configuration.
C5_LoadNeedsAllArtifacts ==
    ev.loaded = "ok" =>
        /\ files.model # {}
        /\ files.scaler # {}
        /\ files.meta = {CurrentMeta}

\* C6: ModelRegistry.ready is never TRUE while the registry's model is missing
\* or has trained = FALSE.
C6_ReadyImpliesTrained ==
    ready => (model # None /\ objs[model].trained)

\* C7: every code path that finds the registry's model null treats it as not
\* ready and raises nothing: predict_next and feature_importances answer the
\* empty list, the nightly loop loads a model, the training loop does not
\* dereference it.
C7_NullModelNeverRaises ==
    ev.null =>
        /\ ev.raised = "none"
        /\ ev.call \in {"predict_next", "feature_importances"} => ev.result = "empty"

\* C8 (as stated): a train() that ends on an empty training table has changed
\* nothing: trained flag, regressor, scaler, artifacts and also the
\* market-return cache are as they were when it was entered, and it raises
\* nothing.
C8_TrainEmptyIsNoOp ==
    (ev.call = "train" /\ ev.phase = "return" /\ ev.rows = 0) =>
        /\ ev.changed = {}
        /\ ~ev.saved
        /\ ev.raised = "none"
        /\ ev.as_entered

\* C8 (amended): no step of a train() changes anything but the market-return
\* cache before the table is built, and the step that ends a train() on an
\* empty table changes neither the trained flag, the regressor, the scaler nor
\* the artifacts, and raises nothing.  This holds for the training loop's
\* train() and for the one inside load().
C8_TrainEmptyKeepsModel ==
    /\ (ev.call = "train" /\ ev.phase \in {"begin", "read"}) =>
           (ev.changed \subseteq {"mr"} /\ ~ev.saved)
    /\ (ev.call \in {"train", "load"} /\ ev.loaded = "none" /\ ev.phase = "return"
          /\ ev.rows = 0) =>
           (ev.changed = {} /\ ~ev.saved /\ ev.raised = "none")

\* A train() of the training loop has ended on an empty table after its entry
\* replaced the market-return cache.
C8_Witness ==
    /\ ev.call = "train"
    /\ ev.phase = "return"
    /\ ev.rows = 0
    /\ ~ev.as_entered

\* C9: predict() answers the empty list, without raising, whenever trained is
\* FALSE or volumes is None, for every prices, steps and dates; predict_high_low()
\* then answers two empty lists.
C9_PredictEmptyWhenNotReady ==
    (req.fn \in {"predict", "predict_high_low"} /\ (~req.trained \/ ~req.volumes)) =>
        /\ ~req.raised
        /\ req.prices = <<>>
        /\ req.high = <<>>
        /\ req.low = <<>>

\* predict() was called on a trained predictor with volumes = None, on a series
\* and a step count that give predictions when volumes are passed.
C9_Witness ==
    /\ req.fn = "predict"
    /\ req.trained
    /\ ~req.volumes
    /\ req.hist >= look_back
    /\ req.steps > 0
    /\ req.prices = <<>>

\* C10: when the model is not trained, or the symbol's history is missing or
\* shorter than the look-back window, predict(), predict_next(),
\* predict_next_with_dates() and predict_stock answer an empty result and raise
\* nothing.
C10_NotReadyNeverRaises ==
    (/\ req.fn \in {"predict", "predict_next", "predict_next_with_dates",
                    "predict_stock"}
     /\ (~req.trained \/ req.hist < look_back)) =>
        /\ ~req.raised
        /\ req.prices = <<>>

\* Every price is bracketed by its band: high[i] > prices[i] > low[i], the
\* bands in thousandths of the price unit.
Bracketed(prices, high, low) ==
    \A i \in 1 .. Len(prices) :
        /\ i <= Len(high) /\ high[i] > 1000 * prices[i]
        /\ i <= Len(low) /\ 1000 * prices[i] > low[i]

\* C11 (as stated): predict_high_low answers bands as long as the prediction,
\* and for every predicted price and every index i, high[i] > predict[i] > low[i].
C11_BandNeverInverts ==
    (req.fn = "predict_high_low" /\ ~req.raised) =>
        /\ Len(req.high) = Len(req.prices)
        /\ Len(req.low) = Len(req.prices)
        /\ Bracketed(req.prices, req.high, req.low)

\* C11 (amended): predict_high_low answers bands as long as the prediction, and
\* for every index i whose predicted price is positive, high[i] > predict[i] >
\* low[i]; a predicted price of 0.00 has high[i] = predict[i] = low[i].
C11_BandBracketsPositivePrices ==
    (req.fn = "predict_high_low" /\ ~req.raised) =>
        /\ Len(req.high) = Len(req.prices)
        /\ Len(req.low) = Len(req.prices)
        /\ \A i \in 1 .. Len(req.prices) :
             /\ req.prices[i] > 0 =>
                  (req.high[i] > 1000 * req.prices[i] /\ 1000 * req.prices[i] > req.low[i])
             /\ req.prices[i] = 0 => (req.high[i] = 0 /\ req.low[i] = 0)

\* predict_high_low has answered bands for two positive predicted prices.
C11_Witness ==
    /\ req.fn = "predict_high_low"
    /\ Len(req.prices) = 2
    /\ req.prices[2] > 0
    /\ Len(req.high) = 2

\* C12: every result of predict_next_with_dates has dates, prices, high and low
\* of one length, and high[i] > prices[i] > low[i] for every index i.
C12_ForecastBandsMatchPrices ==
    (req.fn = "predict_next_with_dates" /\ ~req.raised) =>
        /\ Len(req.dates) = Len(req.prices)
        /\ Len(req.high) = Len(req.prices)
        /\ Len(req.low) = Len(req.prices)
        /\ Bracketed(req.prices, req.high, req.low)

\* C13: a loop run by task_wrapper survives its failures.  An exception other
\* than cancellation puts the wrapper into its backoff, from which it goes
\* back to the top of its loop; the wrapper ends only in a step that delivers
\* CancelledError; and every crash is followed by a restart of the loop unless
\* the task is cancelled first.
C13_WrapperRestartsAfterCrash ==
    /\ [][\A l \in Loops :
            /\ (wrapper'[l] = "ended" /\ wrapper[l] # "ended") =>
                   (ev'.raised = "CancelledError" /\ ev'.result = l)
            /\ (ev'.call = "task_wrapper" /\ ev'.raised = "Exception"
                  /\ ev'.result = l) => wrapper'[l] = "backoff"
            /\ (wrapper[l] = "backoff" /\ wrapper'[l] # "backoff") =>
                   wrapper'[l] \in {"start", "ended"}]_vars
    /\ \A l \in Loops :
         (wrapper[l] = "backoff") ~> (wrapper[l] \in {"running", "ended"})

\* A loop crashed and its wrapper is in the backoff while a sibling runs.
C13_Witness ==
    /\ ev.call = "task_wrapper"
    /\ ev.raised = "Exception"
    /\ wrapper[ev.result] = "backoff"
    /\ \E l \in Loops : wrapper[l] = "running"

\* C14: a train() that raises while its caller holds the registry lock
\* releases it, a training loop never sleeps while holding it, and a training
\* loop that waits for the lock gets it (unless on_startup failed and the
\* server ended).
C14_LockReleasedAndAcquired ==
    /\ [](/\ (ev.phase = "raise" /\ ev.locked) => lock = "free"
          /\ \A t \in TrainingLoops : pc[t] = "sleep" => lock # t)
    /\ \A t \in TrainingLoops :
         (Started /\ pc[t] = "start") ~> (pc[t] # "start" \/ ~Alive)

\* train() of one training loop has just raised inside the lock; the lock is
\* free again while the other training loop waits for it.
C14_Witness ==
    /\ ev.call = "train"
    /\ ev.phase = "raise"
    /\ ev.locked
    /\ lock = "free"
    /\ \E t \in TrainingLoops : pc[t] = "sleep"
    /\ \E t \in TrainingLoops : pc[t] = "start"

\* The well-formed entries of the result log, in order; a log that does not
\* exist holds none.
LogEntries == IF log_exists THEN parsed_results(backtest_log) ELSE <<>>

\* C15: drift_metrics(window) answers status "insufficient" with recent_mae,
\* prior_mae and delta null whenever the log holds fewer than 2 x window
\* well-formed entries, an empty and a missing log included.
C15_FewEntriesInsufficient ==
    (req.fn = "drift_metrics" /\ Len(LogEntries) < 2 * req.window) =>
        /\ req.raised = "none"
        /\ req.status = "insufficient"
        /\ req.recent_mae = {} /\ req.prior_mae = {} /\ req.delta = {}

\* The mean of mae_model over the entries rs, as a quotient.
MeanMae(rs) == Quotient(sum_mae(rs), Len(rs))

\* Two quotients that stand for the same number.
SameNumber(p, q) == p.num * q.den = q.num * p.den

\* The status C16 describes for the means r (recent) and p (prior), both over
\* w entries: delta = r - p against the threshold.
StatusFor(r, p, w) ==
    IF r.num - p.num > drift_threshold * w THEN "degrading"
    ELSE IF r.num - p.num < -drift_threshold * w THEN "improving"
    ELSE "stable"

\* C16: on a log with at least 2 x window well-formed entries drift_metrics
\* returns without raising; recent_mae is the mean of mae_model over the last
\* `window` well-formed entries, prior_mae the mean over the `window` entries
\* before those, delta their difference, and the status is "degrading" iff
\* delta > 0.0005, "improving" iff delta < -0.0005, "stable" otherwise.  (A
\* negative window names no entries and is left aside.)
C16_DriftComparesTheTwoWindows ==
    (/\ req.fn = "drift_metrics"
     /\ log_exists
     /\ req.window >= 0
     /\ Len(LogEntries) >= 2 * req.window) =>
        /\ req.raised = "none"
        /\ req.recent_mae # {} /\ req.prior_mae # {} /\ req.delta # {}
        /\ LET w == req.window
               n == Len(LogEntries)
               recent == MeanMae(SubSeq(LogEntries, n - w + 1, n))
               prior == MeanMae(SubSeq(LogEntries, n - 2 * w + 1, n - w))
           IN /\ SameNumber(FileValue(req.recent_mae), recent)
              /\ SameNumber(FileValue(req.prior_mae), prior)
              /\ SameNumber(FileValue(req.delta),
                            Quotient(recent.num - prior.num, w))
              /\ req.status = StatusFor(recent, prior, w)

\* C17: save_hourly_history / save_daily_history with prices, volumes and dates
\* of unequal lengths raises and leaves the stored series of the symbol exactly
\* as it was.
C17_UnequalSaveRaisesAndKeeps ==
    (/\ req.fn = "save_history"
     /\ (req.lens[1] # req.lens[2] \/ req.lens[1] # req.lens[3])) =>
        /\ req.raised
        /\ req.after = req.before
        /\ series[req.g] = req.before

\* A save with unequal lengths was refused while a non-empty series was stored.
C17_Witness ==
    /\ req.fn = "save_history"
    /\ req.lens[1] # req.lens[2]
    /\ req.raised
    /\ req.before.prices # <<>>

\* The versions the entries of a column come from.
VersionsOf(xs) == {xs[i] \div 10 : i \in 1 .. Len(xs)}

\* C18: every triple returned by get_hourly_history / get_daily_history has
\* three arrays of equal length that come from one saved version of the
\* series, also when a save for the symbol runs during the read.
C18_ReadTripleFromOneVersion ==
    req.fn = "get_history" =>
        /\ Len(req.prices) = Len(req.volumes)
        /\ Len(req.prices) = Len(req.dates)
        /\ Cardinality(VersionsOf(req.prices) \cup VersionsOf(req.volumes)
                         \cup VersionsOf(req.dates)) <= 1

\* The last min(n, length) entries of xs, in order.
LastEntries(xs, n) == SubSeq(xs, Len(xs) - Min(n, Len(xs)) + 1, Len(xs))

\* The answer C19 describes for a column xs and a limit.
Limited(xs, limit) == IF limit = {} THEN xs ELSE LastEntries(xs, FileValue(limit))

\* C19: get_hourly_history / get_daily_history gives three empty arrays for an
\* absent symbol, the full series without a limit, and for every limit n
\* (n = 0 and n larger than the series included) the last min(n, length)
\* entries of each array, in stored order.
C19_HistoryTailLimited ==
    req.fn = "get_history" =>
        /\ req.prices = Limited(req.read.prices, req.limit)
        /\ req.volumes = Limited(req.read.volumes, req.limit)
        /\ req.dates = Limited(req.read.dates, req.limit)

\* C20: the result log is append-only with one line per run: after a run of a
\* nightly loop or of the run_backtest script that did not raise, the log is
\* what it was before the run followed by exactly one line.
C20_OneLinePerRun ==
    (req.fn \in {"nightly_backtest", "run_backtest"} /\ ~req.raised) =>
        /\ Len(backtest_log) = Len(req.before) + 1
        /\ SubSeq(backtest_log, 1, Len(req.before)) = req.before

\* C21: every line a backtest run appends to the result log, whatever
\* backtest() returned, is one that _parse_backtest_line turns into a
\* BacktestResult, and the timestamp and the five metric fields of that result
\* are the values written in the line.
C21_AppendedLineParses ==
    (/\ req.fn \in {"nightly_backtest", "run_backtest"}
     /\ Len(backtest_log) > Len(req.before)) =>
        LET parsed == parse_backtest_line(backtest_log[Len(backtest_log)])
        IN /\ parsed # {}
           /\ FileValue(parsed).timestamp = req.timestamp
           /\ req.results # {} =>
                LET r == FileValue(req.results)
                    b == FileValue(parsed)
                IN /\ b.mae_model = fmt6(r.mae_model)
                   /\ b.mae_baseline = fmt6(r.mae_baseline)
                   /\ b.directional_accuracy_model = fmt3(r.directional_accuracy_model)
                   /\ b.directional_accuracy_baseline =
                          fmt3(r.directional_accuracy_baseline)
                   /\ b.validation_size = r.validation_size

\* C22: after a train() that fitted and persisted its artifacts, a fresh model
\* that loads them holds the regressor, the scaler, the look-back length and
\* the market returns of the model that saved them (so that predict() on one
\* input answers the same before persisting and after loading).
C22_LoadedModelEqualsSaved ==
    (req.fn = "load_artifacts" /\ req.after_persist /\ req.ok) =>
        /\ req.loaded.reg = objs[Saver].reg
        /\ req.loaded.scaler = objs[Saver].scaler
        /\ req.loaded.look_back = objs[Saver].look_back
        /\ req.loaded.mr = objs[Saver].mr

\* C23: for series of equal lengths and a market matrix with one row per step
\* the feature matrix has as many rows as the series and 11 columns plus one
\* per market index, whatever the length of the series.
C23_FeatureMatrixShape ==
    (/\ req.fn = "make_features"
     /\ req.lens.volumes = req.lens.prices
     /\ req.lens.dates = req.lens.prices
     /\ req.market_rows = req.lens.prices) =>
        /\ req.raised = "none"
        /\ req.rows = req.lens.prices
        /\ req.cols = 11 + req.market_cols

\* A series of one and the same price.
IsConstant(prices) == \A i \in 1 .. Len(prices) : prices[i] = prices[1]

IsStrictlyIncreasing(prices) == \A i \in 2 .. Len(prices) : prices[i - 1] < prices[i]

\* C24: for a constant price series _calc_rsi answers one value per price, and
\* every value is 50.
C24_ConstantSeriesRsiIs50 ==
    (req.fn = "calc_rsi" /\ IsConstant(req.prices)) =>
        /\ Len(req.rsi) = Len(req.prices)
        /\ \A i \in 1 .. Len(req.rsi) : req.rsi[i] = Quotient(50, 1)

\* A constant series longer than the rolling period went through _calc_rsi.
C24_Witness ==
    /\ req.fn = "calc_rsi"
    /\ IsConstant(req.prices)
    /\ Len(req.prices) > req.period
    /\ req.rsi[Len(req.rsi)] = Quotient(50, 1)

\* C25 as stated: for every strictly increasing price series the last value
\* of _calc_rsi is greater than 50.
C25_IncreasingSeriesRsiAbove50 ==
    (req.fn = "calc_rsi" /\ Len(req.prices) >= 1 /\ IsStrictlyIncreasing(req.prices)) =>
        Greater(req.rsi[Len(req.rsi)], 50)

\* C25: for every strictly increasing price series of at least two prices the
\* last value of _calc_rsi is greater than 50 (it is 100).
C25_IncreasingPairRsiAbove50 ==
    (req.fn = "calc_rsi" /\ Len(req.prices) >= 2 /\ IsStrictlyIncreasing(req.prices)) =>
        Greater(req.rsi[Len(req.rsi)], 50)

\* A strictly increasing series longer than the rolling period went through
\* _calc_rsi.
C25_Witness ==
    /\ req.fn = "calc_rsi"
    /\ IsStrictlyIncreasing(req.prices)
    /\ Len(req.prices) > req.period
    /\ req.rsi[Len(req.rsi)] = Quotient(100, 1)

\* C26: for every table of n rows and every val_size, backtest() returns the
\* empty result without a split when val_size >= n; otherwise the validation
\* set is the last val_size rows and the training set is the n - val_size rows
\* before them, in the table's order: training rows followed by validation
\* rows are the table.
C26_SplitKeepsOrderAndSizes ==
    req.fn = "backtest_split" =>
        LET n == Len(req.X)
        IN IF req.val_size >= n THEN req.empty /\ ~req.split
           ELSE /\ ~req.empty /\ req.split
                /\ req.X_val = SubSeq(req.X, n - req.val_size + 1, n)
                /\ req.X_train = SubSeq(req.X, 1, n - req.val_size)
                /\ req.y_val = req.X_val /\ req.y_train = req.X_train
                /\ req.X_train \o req.X_val = req.X
                /\ Len(req.X_val) = req.val_size
                /\ Len(req.X_train) = n - req.val_size

\* The statement of C26 for the validation sizes from 1 up.
C26_PositiveSplit ==
    (req.fn = "backtest_split" /\ req.val_size >= 1) => C26_SplitKeepsOrderAndSizes

\* The rows of the table that come from symbol s, in the table's order.
RowsOf(X, s) == SelectSeq(X, LAMBDA r : r.symbol = s)

\* C27: the training table holds, for each symbol of n >= look_back + 30
\* prices, exactly one row per i in [look_back, n - 1), that is
\* n - look_back - 1 rows, row i made of the feature rows i - look_back ..
\* i - 1 with the target of prices i and i + 1; it holds no row of a shorter
\* symbol; every row has look_back * feature_count columns; and it has no
\* rows when no symbol qualifies.
C27_TableRowsPerSymbol ==
    req.fn = "build_global_dataset" =>
        LET feature_count == Len(FeatureColumns) + req.market_cols
        IN /\ \A s \in 1 .. Len(req.lens) :
                LET n == req.lens[s]
                    rows == RowsOf(req.X, s)
                IN IF n >= look_back + 30
                     THEN /\ Len(rows) = n - look_back - 1
                          /\ \A i \in look_back .. n - 2 :
                               Cardinality({k \in 1 .. Len(rows) :
                                              /\ rows[k].first = i - look_back
                                              /\ rows[k].last = i - 1
                                              /\ rows[k].target = <<i, i + 1>>}) = 1
                          /\ \A k \in 1 .. Len(rows) : rows[k].target[2] <= n - 1
                     ELSE rows = <<>>
           /\ \A k \in 1 .. Len(req.X) : req.X[k].columns = look_back * feature_count
           /\ (\A s \in 1 .. Len(req.lens) : req.lens[s] < look_back + 30) => req.X = <<>>

\* A table was built over one symbol at the minimum length and one below it,
\* for a predictor with market indices.
C27_Witness ==
    /\ req.fn = "build_global_dataset"
    /\ req.market_cols > 0
    /\ \E s \in 1 .. Len(req.lens) : req.lens[s] = look_back + 30
    /\ \E s \in 1 .. Len(req.lens) : req.lens[s] = look_back + 29
    /\ Len(req.X) = 29

\* The rollout's working series after its iterations so far: the input prices
\* followed by one price per prediction, each the prediction before rounding;
\* every appended volume the last real one.
RolloutExtendsInput ==
    LET n == Len(req.input)
        k == Len(req.preds)
    IN /\ Len(req.prices) = n + k
       /\ SubSeq(req.prices, 1, n) = req.input
       /\ \A j \in 1 .. k : round2(req.prices[n + j]) = req.preds[j]
       /\ Len(req.volumes) = n + k
       /\ \A j \in 1 .. k : req.volumes[n + j] = RolloutVolumes(n)[n]
       /\ Len(req.timestamps) = n + k

\* C28: predict() on a trained model returns exactly `steps` prices, and after
\* k iterations the working series is the input prices followed by the k
\* predicted prices, every appended volume is the last real volume, and every
\* appended timestamp is one unit of the series' interval after the one before
\* it: one hour for an hourly series, one day for a daily one.
C28_RolloutAdvancesByInterval ==
    req.fn \in {"predict_loop", "predict_returned"} =>
        /\ req.fn = "predict_returned" => Len(req.preds) = req.steps
        /\ RolloutExtendsInput
        /\ \A j \in Len(req.input) + 1 .. Len(req.timestamps) :
             req.timestamps[j] = req.timestamps[j - 1] + HoursPerEntry(req.interval)

\* The statement of C28 for hourly series.
C28_HourlyRollout ==
    (req.fn \in {"predict_loop", "predict_returned"} /\ req.interval = "hourly")
        => C28_RolloutAdvancesByInterval

\* The appended prices are the returned predictions themselves.
C28_WorkingPricesAreReturned ==
    req.fn \in {"predict_loop", "predict_returned"} =>
        \A j \in 1 .. Len(req.preds) : req.prices[Len(req.input) + j] = req.preds[j]

\* How many of the requests of client ip let through the limiter arrived
\* within RATE_LIMIT_WINDOW_SECONDS before time t.
AcceptedInWindow(ip, t) ==
    Cardinality({i \in 1 .. Len(accepted[ip]) :
                   /\ accepted[ip][i] <= t
                   /\ t - accepted[ip][i] <= RATE_LIMIT_WINDOW_SECONDS})

\* C29: for every client and at every time, at most RATE_LIMIT_MAX requests
\* let through the limiter arrived within the last RATE_LIMIT_WINDOW_SECONDS;
\* a request is answered 429 only when that many are inside the window; a
\* rejected request is not recorded; a request whose path starts with /ws is
\* neither limited nor recorded.
C29_WindowQuotaHolds ==
    /\ \A ip \in Clients : AcceptedInWindow(ip, clock) <= RATE_LIMIT_MAX
    /\ req.fn = "rate_limit_and_log" =>
         /\ req.status = 429 =>
              /\ AcceptedInWindow(req.ip, req.now) >= RATE_LIMIT_MAX
              /\ \A i \in 1 .. Len(rate_buckets[req.ip]) :
                   rate_buckets[req.ip][i] \in
                     {req.before[req.ip][j] : j \in 1 .. Len(req.before[req.ip])}
              /\ Len(rate_buckets[req.ip]) <= Len(req.before[req.ip])
         /\ startswith(req.path, <<"/", "w", "s">>) =>
              /\ req.status # 429
              /\ ~req.limited
              /\ rate_buckets = req.before
         /\ \A ip \in Clients \ {req.ip} : rate_buckets[ip] = req.before[ip]

\* A client with a full window was answered 429, while the other client has
\* been let through more than RATE_LIMIT_MAX times over several windows.
C29_Witness ==
    /\ req.fn = "rate_limit_and_log"
    /\ req.status = 429
    /\ Len(rate_buckets[req.ip]) = RATE_LIMIT_MAX
    /\ \E ip \in Clients \ {req.ip} : Len(accepted[ip]) > RATE_LIMIT_MAX

\* a is an earlier "%Y-%m-%d" date than b.
DateBefore(a, b) ==
    \/ a[1] < b[1]
    \/ a[1] = b[1] /\ a[2] < b[2]
    \/ a[1] = b[1] /\ a[2] = b[2] /\ a[3] < b[3]

\* The dates generated so far are strictly increasing, later than the last
\* stored date and Monday to Friday, and the first one is the first day after
\* the last stored date that is not a Saturday or Sunday.
DatesInOrder ==
    LET ds == req.predicted_dates
        last == strptime(req.last_date_str)
    IN /\ Len(ds) <= req.count
       /\ \A i \in 1 .. Len(ds) :
            /\ DateBefore(req.last_date_str, ds[i])
            /\ strptime(ds[i]) % 7 \in 0 .. 4
            /\ i > 1 => DateBefore(ds[i - 1], ds[i])
       /\ Len(ds) >= 1 =>
            /\ strptime(ds[1]) > last
            /\ \A d \in last + 1 .. strptime(ds[1]) - 1 : d % 7 \in {5, 6}

\* C30: the date loop of predict_next_with_dates ends for every last stored
\* date and every number of predictions; the dates it returns are as many as
\* the predicted prices, strictly increasing, all later than the last stored
\* date and all Monday to Friday, the first being the first non-weekend day
\* after the last stored date.
C30_FutureDatesEndAndAreWeekdays ==
    /\ [](req.fn \in {"dates_loop", "dates_returned"} => DatesInOrder)
    /\ [](req.fn = "dates_returned" =>
            /\ Len(req.predicted_dates) = req.count
            /\ [i \in 1 .. req.count |-> strptime(req.predicted_dates[i])]
                 = future_dates(strptime(req.last_date_str), req.count, <<>>))
    /\ (req.fn = "dates_loop") ~> (req.fn = "dates_returned")

\* MaxDates dates were returned after a Friday at the end of the year: the
\* first is the Monday after the weekend, the last falls in the next year.
C30_Witness ==
    /\ req.fn = "dates_returned"
    /\ req.count = MaxDates
    /\ strptime(req.last_date_str) % 7 = 4
    /\ strptime(req.predicted_dates[1]) = strptime(req.last_date_str) + 3
    /\ req.predicted_dates[req.count][1] = FirstYear + 1

====
